---- MODULE Spec2Model ----
(***************************************************************************)
(* Model of the network design formulator in                               *)
(* src/Pyomo-OWE_optimise_radial.py (opt_model and the helpers it calls),  *)
(* of its cost functions present_value, export_cable_costs and             *)
(* offshore_substation_costs, of HVAC_cable_costs in                       *)
(* src/ArcPy-OWE_calculate_cable_costs_dataset.py, of the substation cost  *)
(* functions of src/ArcPy-OWE_calculate_offshore_substation_costs.py, of   *)
(* present_value in src/plot_cost_eh.py and of                             *)
(* create_and_add_inter_array_cables in src/generate_polyline_iac.py.      *)
(* Each function called on its own has its own specification: SpecViable,  *)
(* SpecCable, SpecPv, SpecHvac, SpecOss, SpecPvBoth and SpecIac.           *)
(*                                                                         *)
(* Units.  Distances are integers in metres; haversine returns km as a     *)
(* float in the source, so the model's value is km * 1000.  Costs are      *)
(* integers in 1/100 of the source's cost unit, which keeps the factor     *)
(* 1.1 of the placeholder cost functions exact.                            *)
(* Coordinates are integers in 1/22239 of a degree, which is 5 m of arc,   *)
(* and every entity lies on one meridian (the same longitude), where the   *)
(* haversine formula reduces to r * |dlat| exactly.  The datasets are well-formed: unique integer ids,   *)
(* non-negative coordinates, capacities and costs, as the Param domains    *)
(* of opt_model require.                                                   *)
(***************************************************************************)
EXTENDS Integers, Sequences, FiniteSets, TLC

VARIABLES
    files,        \* the datasets in workspace_folder: wf_data, oss_data, onss_data
    pc,           \* position of the run inside opt_model
    loc,          \* opt_model's local dictionaries and lists
    model,        \* the Pyomo ConcreteModel: its components
    stdout,       \* the progress messages printed so far
    solver_calls, \* number of solver.solve(model) calls made
    results,      \* the termination condition read from the solver's results
    solution,     \* the values the solver has loaded into the model's variables
    retval,       \* what opt_model returned to its caller
    call          \* a direct call of one of the cost or viability functions:
                  \* its arguments, its locals and its outcome

optvars == <<files, pc, loc, model, stdout, solver_calls, results, solution, retval>>

vars == <<files, pc, loc, model, stdout, solver_calls, results, solution, retval, call>>

-----------------------------------------------------------------------------
(* Bounds of the inputs *)

MaxCap == 2

\* resolution of a coordinate: units per degree of arc
UnitsPerDegree == 22239

Deg(d) == d * UnitsPerDegree

\* country codes: of wind farms and onshore substations, and of offshore sites
ISO == {"DE", "DK"}
OssISO == {"DE"}
Lons == {Deg(20)}
WfLats == {Deg(54), Deg(55)}
OssLats == {Deg(55), Deg(56)}
OnssLats == {Deg(58), Deg(60)}

WindFarmIds == {1, 2}
OffshoreIdSets == {{11}, {11, 12}}
OnshoreIds == {21}

\* fixed connection cost of a wind farm
WfCosts == {5}

\* site attributes of an offshore substation: water depth (m), ice cover, port distance (km)
OssSites == {[wdepth |-> 20, icover |-> 1, pdist |-> 50]}

TerminationConditions == {"optimal", "infeasible", "other"}

-----------------------------------------------------------------------------
(* Helpers *)

RECURSIVE SumOver(_, _)
SumOver(f, S) ==
    IF S = {} THEN 0
    ELSE LET x == CHOOSE y \in S : TRUE
         IN  f[x] + SumOver(f, S \ {x})

Abs(x) == IF x < 0 THEN -x ELSE x

EmptyFn == [x \in {} |-> 0]

\* no direct call of a cost or viability function is in progress
NoCall == [fn |-> "none"]

-----------------------------------------------------------------------------
(* Geodesic distance *)

\* r * pi / 180 / UnitsPerDegree with r = 6371 km, in metres per coordinate
\* unit: 111194.93 / 22239 = 5.0000
MetresPerUnit == 5

\* haversine(lon1, lat1, lon2, lat2) on a common meridian: a = sin^2(dlat/2),
\* c = 2 asin(sqrt(a)) = |dlat| in radians, distance = c * r.
haversine(lon1, lat1, lon2, lat2) ==
    MetresPerUnit * Abs(lat2 - lat1)

\* distance ceilings of the two viability searches, in km
IAC_MAX_KM == 150
EC_MAX_KM == 500

\* the distances the docstrings of the two searches announce, in km
IAC_DOCSTRING_KM == 150
EC_DOCSTRING_KM == 300

find_viable_iac(wf_lon, wf_lat, oss_lon, oss_lat) ==
    {p \in (DOMAIN wf_lon) \X (DOMAIN oss_lon) :
        haversine(wf_lon[p[1]], wf_lat[p[1]], oss_lon[p[2]], oss_lat[p[2]])
            <= IAC_MAX_KM * 1000}

\* find_viable_ec with the fault of a strict comparison against the ceiling
find_viable_ec_Strict(oss_lon, oss_lat, onss_lon, onss_lat) ==
    {p \in (DOMAIN oss_lon) \X (DOMAIN onss_lon) :
        haversine(oss_lon[p[1]], oss_lat[p[1]], onss_lon[p[2]], onss_lat[p[2]])
            < EC_MAX_KM * 1000}

find_viable_ec(oss_lon, oss_lat, onss_lon, onss_lat) ==
    {p \in (DOMAIN oss_lon) \X (DOMAIN onss_lon) :
        haversine(oss_lon[p[1]], oss_lat[p[1]], onss_lon[p[2]], onss_lat[p[2]])
            <= EC_MAX_KM * 1000}

-----------------------------------------------------------------------------
(* Placeholder cost functions (results in 1/100 cost units, distance in m) *)

oss_cost_plh(wdepth, icover, pdist, capacity, polarity) ==
    LET cost == wdepth * 100000 + icover * 500000 + pdist * 200000 + capacity * 100000
    IN  IF polarity = "AC" THEN (cost * 11) \div 10
        ELSE IF polarity = "DC" THEN (cost * 12) \div 10
        ELSE cost

iac_cost_plh(distance, capacity, polarity) ==
    LET cost == distance * 150 + capacity * 40000
    IN  IF polarity = "AC" THEN (cost * 11) \div 10
        ELSE IF polarity = "DC" THEN (cost * 12) \div 10
        ELSE cost

ec_cost_plh(distance, capacity, polarity) ==
    LET cost == distance * 200 + capacity * 50000
    IN  IF polarity = "AC" THEN (cost * 11) \div 10
        ELSE IF polarity = "DC" THEN (cost * 12) \div 10
        ELSE cost

-----------------------------------------------------------------------------
(* The Pyomo model.  A Set, Param, Var or Expression component is held as  *)
(* its index set or its values; an Expression's value under an assignment  *)
(* of the variables is given by its rule.                                  *)

EmptyModel ==
    [components |-> <<>>,
     wf_ids |-> {}, oss_ids |-> {}, onss_ids |-> {},
     wf_iso |-> EmptyFn, wf_lon |-> EmptyFn, wf_lat |-> EmptyFn,
     wf_cap |-> EmptyFn, wf_cost |-> EmptyFn,
     oss_iso |-> EmptyFn, oss_lon |-> EmptyFn, oss_lat |-> EmptyFn,
     oss_wdepth |-> EmptyFn, oss_icover |-> EmptyFn, oss_pdist |-> EmptyFn,
     onss_iso |-> EmptyFn, onss_lon |-> EmptyFn, onss_lat |-> EmptyFn,
     viable_iac_ids |-> {}, viable_ec_ids |-> {},
     select_wf_var |-> {}, select_oss_var |-> {},
     select_iac_var |-> {}, select_ec_var |-> {},
     expressions |-> {},
     global_cost_obj |-> "none",
     constraints |-> {}]

EmptyLoc ==
    [wf_ids |-> {}, oss_ids |-> {}, onss_ids |-> {},
     wf_iso |-> EmptyFn, wf_lon |-> EmptyFn, wf_lat |-> EmptyFn,
     wf_cap |-> EmptyFn, wf_cost |-> EmptyFn,
     oss_iso |-> EmptyFn, oss_lon |-> EmptyFn, oss_lat |-> EmptyFn,
     oss_wdepth |-> EmptyFn, oss_icover |-> EmptyFn, oss_pdist |-> EmptyFn,
     onss_iso |-> EmptyFn, onss_lon |-> EmptyFn, onss_lat |-> EmptyFn,
     viable_iac |-> {}, viable_ec |-> {}]

\* the variables of a model hold no value until a solve loads one
NoSolution == [loaded |-> FALSE]

\* The assignments of the binary variables that exist in model m
Assignments(m) ==
    [wf : [m.select_wf_var -> {0, 1}],
     oss : [m.select_oss_var -> {0, 1}],
     iac : [m.select_iac_var -> {0, 1}],
     ec : [m.select_ec_var -> {0, 1}]]

(* Distance expressions *)
iac_dist_rule(m, a, wf, oss) ==
    haversine(m.wf_lon[wf], m.wf_lat[wf], m.oss_lon[oss], m.oss_lat[oss])
        * a.iac[<<wf, oss>>]

ec_dist_rule(m, a, oss, onss) ==
    haversine(m.oss_lon[oss], m.oss_lat[oss], m.onss_lon[onss], m.onss_lat[onss])
        * a.ec[<<oss, onss>>]

(* Capacity expressions *)
iac_capacity_rule(m, a, wf, oss) ==
    m.wf_cap[wf] * a.iac[<<wf, oss>>]

\* oss_capacity_rule with the fault of summing over every viable edge,
\* active or not
oss_capacity_rule_EveryViableEdge(m, a, oss) ==
    LET S == {wf \in m.wf_ids : <<wf, oss>> \in m.viable_iac_ids}
    IN  SumOver([wf \in S |-> m.wf_cap[wf]], S)

oss_capacity_rule(m, a, oss) ==
    LET S == {wf \in m.wf_ids : <<wf, oss>> \in m.viable_iac_ids}
    IN  SumOver([wf \in S |-> iac_capacity_rule(m, a, wf, oss) * a.iac[<<wf, oss>>]], S)

ec_capacity_rule(m, a, oss, onss) ==
    oss_capacity_rule(m, a, oss) * a.ec[<<oss, onss>>]

(* Cost expressions *)
iac_cost_rule(m, a, wf, oss) ==
    iac_cost_plh(iac_dist_rule(m, a, wf, oss), iac_capacity_rule(m, a, wf, oss), "AC")

oss_cost_rule(m, a, oss) ==
    oss_cost_plh(m.oss_wdepth[oss], m.oss_icover[oss], m.oss_pdist[oss],
                 oss_capacity_rule(m, a, oss), "AC")

ec_cost_rule(m, a, oss, onss) ==
    ec_cost_plh(ec_dist_rule(m, a, oss, onss), ec_capacity_rule(m, a, oss, onss), "AC")

\* global_cost_rule with the fault of not multiplying the substation cost by
\* select_oss_var
global_cost_rule_OssUnweighted(m, a) ==
    LET wf_total_cost ==
            SumOver([wf \in m.wf_ids |-> m.wf_cost[wf] * 100 * a.wf[wf]], m.wf_ids)
        oss_total_cost ==
            SumOver([oss \in m.oss_ids |-> oss_cost_rule(m, a, oss)], m.oss_ids)
        iac_total_cost ==
            SumOver([p \in m.viable_iac_ids |->
                        iac_cost_rule(m, a, p[1], p[2]) * a.iac[p]], m.viable_iac_ids)
        ec_total_cost ==
            SumOver([p \in m.viable_ec_ids |->
                        ec_cost_rule(m, a, p[1], p[2]) * a.ec[p]], m.viable_ec_ids)
    IN  wf_total_cost + oss_total_cost + iac_total_cost + ec_total_cost

(* Objective: the value of global_cost_obj under assignment a, in 1/100 cost units *)
global_cost_rule(m, a) ==
    LET wf_total_cost ==
            SumOver([wf \in m.wf_ids |-> m.wf_cost[wf] * 100 * a.wf[wf]], m.wf_ids)
        oss_total_cost ==
            SumOver([oss \in m.oss_ids |-> oss_cost_rule(m, a, oss) * a.oss[oss]], m.oss_ids)
        iac_total_cost ==
            SumOver([p \in m.viable_iac_ids |->
                        iac_cost_rule(m, a, p[1], p[2]) * a.iac[p]], m.viable_iac_ids)
        ec_total_cost ==
            SumOver([p \in m.viable_ec_ids |->
                        ec_cost_rule(m, a, p[1], p[2]) * a.ec[p]], m.viable_ec_ids)
    IN  wf_total_cost + oss_total_cost + iac_total_cost + ec_total_cost

-----------------------------------------------------------------------------
(* Constraint rules.  The statements that add them to the model stand      *)
(* after the return statement that ends opt_model; the rules are given     *)
(* here as their text reads, to say which assignments a model holding      *)
(* them admits.                                                            *)

\* 0.5 * sum(wf_cap) <= selected capacity, both sides doubled
min_total_wf_capacity_rule(m, a) ==
    2 * SumOver([wf \in m.wf_ids |-> m.wf_cap[wf] * a.wf[wf]], m.wf_ids)
        >= SumOver(m.wf_cap, m.wf_ids)

wind_farm_to_oss_rule(m, a, wf) ==
    LET S == {oss \in m.oss_ids : <<wf, oss>> \in m.viable_iac_ids}
    IN  SumOver([oss \in S |-> a.iac[<<wf, oss>>]], S) = a.wf[wf]

iac_wf_oss_connection_rule(m, a, wf, oss) ==
    a.iac[<<wf, oss>>] <= a.wf[wf] /\ a.iac[<<wf, oss>>] <= a.oss[oss]

oss_to_onss_rule(m, a, oss) ==
    LET S == {onss \in m.onss_ids : <<oss, onss>> \in m.viable_ec_ids}
    IN  SumOver([onss \in S |-> a.ec[<<oss, onss>>]], S) = a.oss[oss]

wf_oss_iso_matching_rule(m, a, wf, oss) ==
    IF <<wf, oss>> \in m.viable_iac_ids
    THEN a.iac[<<wf, oss>>] * (IF m.wf_iso[wf] = m.oss_iso[oss] THEN 1 ELSE 0)
            = a.iac[<<wf, oss>>]
    ELSE TRUE

oss_onss_iso_matching_rule(m, a, oss, onss) ==
    IF <<oss, onss>> \in m.viable_ec_ids
    THEN a.ec[<<oss, onss>>] * (IF m.oss_iso[oss] = m.onss_iso[onss] THEN 1 ELSE 0)
            = a.ec[<<oss, onss>>]
    ELSE TRUE

ConstraintNames ==
    {"min_total_wf_capacity_con", "wind_farm_to_oss_con", "iac_wf_oss_connection_con",
     "oss_to_onss_con", "wf_oss_iso_con", "oss_onss_iso_con"}

\* assignment a satisfies the constraint component named c of model m
Satisfies(m, a, c) ==
    CASE c = "min_total_wf_capacity_con" -> min_total_wf_capacity_rule(m, a)
      [] c = "wind_farm_to_oss_con" ->
            \A wf \in m.wf_ids : wind_farm_to_oss_rule(m, a, wf)
      [] c = "iac_wf_oss_connection_con" ->
            \A p \in m.viable_iac_ids : iac_wf_oss_connection_rule(m, a, p[1], p[2])
      [] c = "oss_to_onss_con" ->
            \A oss \in m.oss_ids : oss_to_onss_rule(m, a, oss)
      [] c = "wf_oss_iso_con" ->
            \A p \in m.viable_iac_ids : wf_oss_iso_matching_rule(m, a, p[1], p[2])
      [] c = "oss_onss_iso_con" ->
            \A p \in m.viable_ec_ids : oss_onss_iso_matching_rule(m, a, p[1], p[2])

\* the assignments a solver may return for m: those satisfying every
\* constraint the model holds
Admitted(m, a) == \A c \in m.constraints : Satisfies(m, a, c)

-----------------------------------------------------------------------------
(* Inputs: the rows of the three datasets *)

WfRows == [iso : ISO, lon : Lons, lat : WfLats, cap : 1 .. MaxCap, cost : WfCosts]

OssRows ==
    {[iso |-> i, lon |-> x, lat |-> y,
      wdepth |-> s.wdepth, icover |-> s.icover, pdist |-> s.pdist] :
        i \in OssISO, x \in Lons, y \in OssLats, s \in OssSites}

OnssRows == [iso : ISO, lon : Lons, lat : OnssLats]

Datasets ==
    {[wf |-> w, oss |-> o, onss |-> n] :
        w \in [WindFarmIds -> WfRows],
        o \in UNION {[S -> OssRows] : S \in OffshoreIdSets},
        n \in [OnshoreIds -> OnssRows]}

-----------------------------------------------------------------------------
(* opt_model, one action per section of the function *)

Init ==
    /\ files \in Datasets
    /\ pc = "start"
    /\ loc = EmptyLoc
    /\ model = EmptyModel
    /\ stdout = <<>>
    /\ solver_calls = 0
    /\ results = "none"
    /\ solution = NoSolution
    /\ retval = "unset"
    /\ call = NoCall

\* model = ConcreteModel()
InitialiseModel ==
    /\ pc = "start"
    /\ stdout' = Append(stdout, "Initialising model...")
    /\ model' = EmptyModel
    /\ pc' = "process_data"
    /\ UNCHANGED <<files, loc, solver_calls, results, solution, retval, call>>

\* np.load of the three datasets and the per-attribute dictionaries
LoadedData(f) ==
    [EmptyLoc EXCEPT
        !.wf_ids = DOMAIN f.wf,
        !.oss_ids = DOMAIN f.oss,
        !.onss_ids = DOMAIN f.onss,
        !.wf_iso = [i \in DOMAIN f.wf |-> f.wf[i].iso],
        !.wf_lon = [i \in DOMAIN f.wf |-> f.wf[i].lon],
        !.wf_lat = [i \in DOMAIN f.wf |-> f.wf[i].lat],
        !.wf_cap = [i \in DOMAIN f.wf |-> f.wf[i].cap],
        !.wf_cost = [i \in DOMAIN f.wf |-> f.wf[i].cost],
        !.oss_iso = [i \in DOMAIN f.oss |-> f.oss[i].iso],
        !.oss_lon = [i \in DOMAIN f.oss |-> f.oss[i].lon],
        !.oss_lat = [i \in DOMAIN f.oss |-> f.oss[i].lat],
        !.oss_wdepth = [i \in DOMAIN f.oss |-> f.oss[i].wdepth],
        !.oss_icover = [i \in DOMAIN f.oss |-> f.oss[i].icover],
        !.oss_pdist = [i \in DOMAIN f.oss |-> f.oss[i].pdist],
        !.onss_iso = [i \in DOMAIN f.onss |-> f.onss[i].iso],
        !.onss_lon = [i \in DOMAIN f.onss |-> f.onss[i].lon],
        !.onss_lat = [i \in DOMAIN f.onss |-> f.onss[i].lat]]

ProcessData ==
    /\ pc = "process_data"
    /\ stdout' = Append(stdout, "Processing data...")
    /\ loc' = LoadedData(files)
    /\ pc' = "define_parameters"
    /\ UNCHANGED <<files, model, solver_calls, results, solution, retval, call>>

\* model.<x> = Set(initialize=...) and Param(..., initialize=...)
WithParameters(m, l) ==
    [m EXCEPT
        !.wf_ids = l.wf_ids, !.oss_ids = l.oss_ids, !.onss_ids = l.onss_ids,
        !.wf_iso = l.wf_iso, !.wf_lon = l.wf_lon, !.wf_lat = l.wf_lat,
        !.wf_cap = l.wf_cap, !.wf_cost = l.wf_cost,
        !.oss_iso = l.oss_iso, !.oss_lon = l.oss_lon, !.oss_lat = l.oss_lat,
        !.oss_wdepth = l.oss_wdepth, !.oss_icover = l.oss_icover,
        !.oss_pdist = l.oss_pdist,
        !.onss_iso = l.onss_iso, !.onss_lon = l.onss_lon, !.onss_lat = l.onss_lat,
        !.components = m.components \o <<"sets", "parameters">>]

DefineParameters ==
    /\ pc = "define_parameters"
    /\ stdout' = Append(stdout, "Defining model parameters...")
    /\ model' = WithParameters(model, loc)
    /\ pc' = "define_variables"
    /\ UNCHANGED <<files, loc, solver_calls, results, solution, retval, call>>

\* WithVariables with the fault of indexing the edge variables by the full
\* cross products instead of the viable sets
WithVariables_AllPairs(m, viable_iac, viable_ec) ==
    [m EXCEPT
        !.viable_iac_ids = viable_iac,
        !.viable_ec_ids = viable_ec,
        !.select_wf_var = m.wf_ids,
        !.select_oss_var = m.oss_ids,
        !.select_iac_var = m.wf_ids \X m.oss_ids,
        !.select_ec_var = m.oss_ids \X m.onss_ids,
        !.components = m.components \o <<"variables">>]

\* the viable-edge Sets and the four binary Vars
WithVariables(m, viable_iac, viable_ec) ==
    [m EXCEPT
        !.viable_iac_ids = viable_iac,
        !.viable_ec_ids = viable_ec,
        !.select_wf_var = m.wf_ids,
        !.select_oss_var = m.oss_ids,
        !.select_iac_var = viable_iac,
        !.select_ec_var = viable_ec,
        !.components = m.components \o <<"variables">>]

DefineVariables ==
    /\ pc = "define_variables"
    /\ stdout' = Append(stdout, "Defining decision parameters...")
    /\ LET viable_iac == find_viable_iac(loc.wf_lon, loc.wf_lat, loc.oss_lon, loc.oss_lat)
           viable_ec == find_viable_ec(loc.oss_lon, loc.oss_lat, loc.onss_lon, loc.onss_lat)
       IN  /\ loc' = [loc EXCEPT !.viable_iac = viable_iac, !.viable_ec = viable_ec]
           /\ model' = WithVariables(model, viable_iac, viable_ec)
    /\ pc' = "define_expressions"
    /\ UNCHANGED <<files, solver_calls, results, solution, retval, call>>

\* the distance, capacity and cost Expressions
WithExpressions(m) ==
    [m EXCEPT
        !.expressions = {"iac_dist_exp", "ec_dist_exp",
                         "iac_cap_exp", "oss_cap_exp", "ec_cap_exp",
                         "iac_cost_exp", "oss_cost_exp", "ec_cost_exp"},
        !.components = m.components \o <<"expressions">>]

DefineExpressions ==
    /\ pc = "define_expressions"
    /\ stdout' = stdout \o <<"Defining distance expressions...",
                              "Defining capacity expressions...",
                              "Defining costs expressions...">>
    /\ model' = WithExpressions(model)
    /\ pc' = "define_objective"
    /\ UNCHANGED <<files, loc, solver_calls, results, solution, retval, call>>

\* model.global_cost_obj = Objective(rule=global_cost_rule, sense=minimize)
WithObjective(m) ==
    [m EXCEPT
        !.global_cost_obj = "minimize",
        !.components = m.components \o <<"objective">>]

DefineObjective ==
    /\ pc = "define_objective"
    /\ stdout' = stdout \o <<"Defining objective function...",
                              "Objective function defined.">>
    /\ model' = WithObjective(model)
    /\ pc' = "return"
    /\ UNCHANGED <<files, loc, solver_calls, results, solution, retval, call>>

\* the value the return statement that ends the run hands to the caller when
\* the solver's termination condition is tc: a bare return, whatever m and tc
ReturnValue(m, tc) == "None"

Return ==
    /\ pc = "return"
    /\ retval' = ReturnValue(model, results)
    /\ pc' = "done"
    /\ UNCHANGED <<files, loc, model, stdout, solver_calls, results, solution, call>>

Next ==
    \/ InitialiseModel
    \/ ProcessData
    \/ DefineParameters
    \/ DefineVariables
    \/ DefineExpressions
    \/ DefineObjective
    \/ Return

Spec == Init /\ [][Next]_vars

-----------------------------------------------------------------------------
(* Reference quantities used by the properties, computed from the datasets *)

Dist(r1, r2) == haversine(r1.lon, r1.lat, r2.lon, r2.lat)

IacViable(f, wf, oss) == Dist(f.wf[wf], f.oss[oss]) <= IAC_MAX_KM * 1000
EcViable(f, oss, onss) == Dist(f.oss[oss], f.onss[onss]) <= EC_MAX_KM * 1000

\* capacity arriving at oss: the farms with an active viable inter-array edge to it
ConnectedCap(f, a, oss) ==
    LET S == {wf \in DOMAIN f.wf : IacViable(f, wf, oss) /\ a.iac[<<wf, oss>>] = 1}
    IN  SumOver([wf \in S |-> f.wf[wf].cap], S)

\* cost of the selected entities and active edges only, in 1/100 cost units
SelectedCost(f, a) ==
    LET WF == DOMAIN f.wf
        OSS == DOMAIN f.oss
        ONSS == DOMAIN f.onss
        wfc == [wf \in WF |-> IF a.wf[wf] = 1 THEN f.wf[wf].cost * 100 ELSE 0]
        ossc == [oss \in OSS |->
                    IF a.oss[oss] = 1
                    THEN oss_cost_plh(f.oss[oss].wdepth, f.oss[oss].icover,
                                      f.oss[oss].pdist, ConnectedCap(f, a, oss), "AC")
                    ELSE 0]
        iacc == [p \in WF \X OSS |->
                    IF IacViable(f, p[1], p[2]) /\ a.iac[p] = 1
                    THEN iac_cost_plh(Dist(f.wf[p[1]], f.oss[p[2]]), f.wf[p[1]].cap, "AC")
                    ELSE 0]
        ecc == [p \in OSS \X ONSS |->
                    IF EcViable(f, p[1], p[2]) /\ a.ec[p] = 1
                    THEN ec_cost_plh(Dist(f.oss[p[1]], f.onss[p[2]]),
                                     ConnectedCap(f, a, p[1]), "AC")
                    ELSE 0]
    IN  SumOver(wfc, WF) + SumOver(ossc, OSS)
            + SumOver(iacc, WF \X OSS) + SumOver(ecc, OSS \X ONSS)

-----------------------------------------------------------------------------
(* Properties of opt_model *)

AllOnes(S) == [x \in S |-> 1]

\* C1: a finished run of opt_model has declared, in this order, variables,
\* expressions and objective and then the topology, capacity, ISO-matching
\* and minimum-capacity constraints, has handed the model to the solver
\* exactly once, has read the solver's result, and has returned the model.
C1_RunSolvesAndReturnsModel ==
    pc = "done" =>
        /\ model.components =
              <<"sets", "parameters", "variables", "expressions", "objective", "constraints">>
        /\ ConstraintNames \subseteq model.constraints
        /\ solver_calls = 1
        /\ results \in TerminationConditions
        /\ retval = "model"

\* C2: once the variables are declared, select_iac_var[wf, oss] exists exactly
\* for the pairs find_viable_iac returns and select_ec_var[oss, onss] exactly
\* for the pairs find_viable_ec returns; before that no selection variable
\* exists at all.
C2_VariablesExactlyOnViablePairs ==
    LET declared == \E i \in DOMAIN model.components : model.components[i] = "variables"
        viable_iac == find_viable_iac(loc.wf_lon, loc.wf_lat, loc.oss_lon, loc.oss_lat)
        viable_ec == find_viable_ec(loc.oss_lon, loc.oss_lat, loc.onss_lon, loc.onss_lat)
    IN  /\ declared =>
            /\ \A wf \in loc.wf_ids, oss \in loc.oss_ids :
                    <<wf, oss>> \in model.select_iac_var <=> <<wf, oss>> \in viable_iac
            /\ \A oss \in loc.oss_ids, onss \in loc.onss_ids :
                    <<oss, onss>> \in model.select_ec_var <=> <<oss, onss>> \in viable_ec
            /\ model.select_iac_var \subseteq loc.wf_ids \X loc.oss_ids
            /\ model.select_ec_var \subseteq loc.oss_ids \X loc.onss_ids
        /\ ~declared => model.select_iac_var = {} /\ model.select_ec_var = {}

\* C2 witness: a finished run whose data hold a viable and a non-viable pair
\* of each kind, the first with and the second without a selection variable
C2_Witness ==
    /\ pc = "done"
    /\ \E p \in loc.wf_ids \X loc.oss_ids :
            ~IacViable(files, p[1], p[2]) /\ p \notin model.select_iac_var
    /\ \E p \in loc.wf_ids \X loc.oss_ids :
            IacViable(files, p[1], p[2]) /\ p \in model.select_iac_var
    /\ \E p \in loc.oss_ids \X loc.onss_ids :
            ~EcViable(files, p[1], p[2]) /\ p \notin model.select_ec_var
    /\ \E p \in loc.oss_ids \X loc.onss_ids :
            EcViable(files, p[1], p[2]) /\ p \in model.select_ec_var

\* C3: in every assignment the finished model admits, the number of active
\* inter-array edges of each wind farm equals its selection variable.
C3_FarmDegreeEqualsSelection ==
    pc = "done" =>
        \A a \in Assignments(model) : Admitted(model, a) =>
            \A wf \in model.wf_ids :
                LET S == {oss \in model.oss_ids : <<wf, oss>> \in model.viable_iac_ids}
                IN  SumOver([oss \in S |-> a.iac[<<wf, oss>>]], S) = a.wf[wf]

\* C4: in every assignment the finished model admits, an active inter-array
\* edge has its wind farm and its offshore substation selected.
C4_ActiveIacHasSelectedEnds ==
    pc = "done" =>
        \A a \in Assignments(model) : Admitted(model, a) =>
            \A p \in model.viable_iac_ids :
                a.iac[p] <= a.wf[p[1]] /\ a.iac[p] <= a.oss[p[2]]

\* C5: in every assignment the finished model admits, the number of active
\* export edges of each offshore substation equals its selection variable.
C5_SubstationDegreeEqualsSelection ==
    pc = "done" =>
        \A a \in Assignments(model) : Admitted(model, a) =>
            \A oss \in model.oss_ids :
                LET S == {onss \in model.onss_ids : <<oss, onss>> \in model.viable_ec_ids}
                IN  SumOver([onss \in S |-> a.ec[<<oss, onss>>]], S) = a.oss[oss]

\* C6: in every assignment the finished model admits, the two ends of every
\* active inter-array edge and of every active export edge carry the same
\* ISO code.
C6_ActiveEdgesMatchIso ==
    pc = "done" =>
        \A a \in Assignments(model) : Admitted(model, a) =>
            /\ \A p \in model.viable_iac_ids :
                    a.iac[p] = 1 => model.wf_iso[p[1]] = model.oss_iso[p[2]]
            /\ \A p \in model.viable_ec_ids :
                    a.ec[p] = 1 => model.oss_iso[p[1]] = model.onss_iso[p[2]]

\* C8: a finished run has a termination condition from the solver, and the
\* value it returns differs from the value returned under either of the two
\* other cases (optimal, infeasible, other).
C8_ReturnDistinguishesOutcomes ==
    pc = "done" =>
        /\ results \in TerminationConditions
        /\ \A tc \in TerminationConditions \ {results} :
                ReturnValue(model, tc) # retval

\* the scenario of C9: two wind farms, one offshore and one onshore
\* substation, every pair within its distance ceiling, one ISO code throughout
Scenario2x1x1(f) ==
    /\ Cardinality(DOMAIN f.wf) = 2
    /\ Cardinality(DOMAIN f.oss) = 1
    /\ Cardinality(DOMAIN f.onss) = 1
    /\ \A wf \in DOMAIN f.wf, oss \in DOMAIN f.oss :
            IacViable(f, wf, oss) /\ f.wf[wf].iso = f.oss[oss].iso
    /\ \A oss \in DOMAIN f.oss, onss \in DOMAIN f.onss :
            EcViable(f, oss, onss) /\ f.oss[oss].iso = f.onss[onss].iso

\* C9: in that scenario a finished run holds a solution that selects both
\* farms, the substation, both inter-array edges and the export edge.  (The
\* claim's further statement, that the objective value is the sum of the
\* priced components, presupposes this solution.)
C9_ScenarioSelectsEverything ==
    (pc = "done" /\ Scenario2x1x1(files)) =>
        /\ solution.loaded
        /\ solution.a = [wf |-> AllOnes(model.select_wf_var),
                         oss |-> AllOnes(model.select_oss_var),
                         iac |-> AllOnes(model.select_iac_var),
                         ec |-> AllOnes(model.select_ec_var)]
        /\ model.select_iac_var = model.wf_ids \X model.oss_ids
        /\ model.select_ec_var = model.oss_ids \X model.onss_ids

-----------------------------------------------------------------------------
\* C10: the value of the objective of the model opt_model has built, under every assignment of the
\* selection variables, is the sum of wind-farm cost, substation cost,
\* inter-array cost and export cost over the selected entities and the active
\* viable edges; an unselected entity or edge and a non-viable pair
\* contribute nothing.
C10_ObjectiveIsSelectedCost ==
    pc = "done" /\ model.global_cost_obj = "minimize" =>
        \A a \in Assignments(model) :
            global_cost_rule(model, a) = SelectedCost(files, a)

\* C10 witness: a finished run with a non-viable pair of each kind and an
\* assignment that leaves a substation of positive cost unselected while
\* other entities and edges are selected
C10_Witness ==
    /\ pc = "done"
    /\ model.global_cost_obj = "minimize"
    /\ model.select_iac_var # model.wf_ids \X model.oss_ids
    /\ model.select_ec_var # model.oss_ids \X model.onss_ids
    /\ \E a \in Assignments(model) :
            /\ \E oss \in model.oss_ids :
                    a.oss[oss] = 0 /\ oss_cost_rule(model, a, oss) > 0
            /\ \E p \in model.select_iac_var : a.iac[p] = 1
            /\ \E p \in model.select_ec_var : a.ec[p] = 1
            /\ global_cost_rule(model, a) > 0

-----------------------------------------------------------------------------
(* Direct calls of the cost and viability functions.  opt_model is not     *)
(* run: its variables keep the values below.                               *)

NoFiles == [wf |-> EmptyFn, oss |-> EmptyFn, onss |-> EmptyFn]

OptModelNotRun ==
    /\ files = NoFiles
    /\ pc = "not_called"
    /\ loc = EmptyLoc
    /\ model = EmptyModel
    /\ stdout = <<>>
    /\ solver_calls = 0
    /\ results = "none"
    /\ solution = NoSolution
    /\ retval = "unset"

-----------------------------------------------------------------------------
(* find_viable_iac and find_viable_ec called on coordinate dictionaries    *)
(* whose distances lie on both sides of 150 km, 300 km and 500 km          *)

ViableWfLats == {Deg(54), Deg(54) + 1}
ViableOssLats == {Deg(54) + 20000, Deg(54) + 30000, Deg(54) + 30001}
ViableOnssLats == {Deg(54) + 90000, Deg(54) + 90001,
                   Deg(54) + 130000, Deg(54) + 130001}
ViableOssIds == {11, 12}

ViableCalls ==
    {[fn |-> "find_viable",
      wf_lon |-> [i \in WindFarmIds |-> Deg(20)], wf_lat |-> w,
      oss_lon |-> [i \in ViableOssIds |-> Deg(20)], oss_lat |-> o,
      onss_lon |-> [i \in OnshoreIds |-> Deg(20)], onss_lat |-> n,
      returned |-> {}, iac |-> {}, ec |-> {}] :
        w \in [WindFarmIds -> ViableWfLats],
        o \in [ViableOssIds -> ViableOssLats],
        n \in [OnshoreIds -> ViableOnssLats]}

InitViable ==
    /\ OptModelNotRun
    /\ call \in ViableCalls

CallFindViableIac ==
    /\ call.fn = "find_viable"
    /\ "iac" \notin call.returned
    /\ call' = [call EXCEPT
                    !.iac = find_viable_iac(call.wf_lon, call.wf_lat,
                                            call.oss_lon, call.oss_lat),
                    !.returned = @ \cup {"iac"}]
    /\ UNCHANGED optvars

CallFindViableEc ==
    /\ call.fn = "find_viable"
    /\ "ec" \notin call.returned
    /\ call' = [call EXCEPT
                    !.ec = find_viable_ec(call.oss_lon, call.oss_lat,
                                          call.onss_lon, call.onss_lat),
                    !.returned = @ \cup {"ec"}]
    /\ UNCHANGED optvars

NextViable ==
    \/ CallFindViableIac
    \/ CallFindViableEc

SpecViable == InitViable /\ [][NextViable]_vars

\* distance in metres between two latitudes of the call's meridian
LatDist(lat1, lat2) == MetresPerUnit * Abs(lat2 - lat1)

\* C11: find_viable_iac returns exactly the pairs of the full cross product
\* of wind farms and offshore substations whose distance is at most 150 km,
\* and find_viable_ec exactly the pairs of offshore and onshore substations
\* whose distance is at most 500 km: every pair at or under the ceiling is
\* returned and no pair over it.
C11_ViablePairsExactlyWithinCeiling ==
    /\ "iac" \in call.returned =>
          /\ call.iac \subseteq (DOMAIN call.wf_lat) \X (DOMAIN call.oss_lat)
          /\ \A wf \in DOMAIN call.wf_lat, oss \in DOMAIN call.oss_lat :
                <<wf, oss>> \in call.iac
                    <=> LatDist(call.wf_lat[wf], call.oss_lat[oss]) <= 150 * 1000
    /\ "ec" \in call.returned =>
          /\ call.ec \subseteq (DOMAIN call.oss_lat) \X (DOMAIN call.onss_lat)
          /\ \A oss \in DOMAIN call.oss_lat, onss \in DOMAIN call.onss_lat :
                <<oss, onss>> \in call.ec
                    <=> LatDist(call.oss_lat[oss], call.onss_lat[onss]) <= 500 * 1000

\* both searches have returned; each has kept a pair exactly at its ceiling
\* and dropped a pair 5 m beyond it
C11_Witness ==
    /\ call.returned = {"iac", "ec"}
    /\ \E p \in call.iac : LatDist(call.wf_lat[p[1]], call.oss_lat[p[2]]) = 150000
    /\ \E wf \in DOMAIN call.wf_lat, oss \in DOMAIN call.oss_lat :
          /\ LatDist(call.wf_lat[wf], call.oss_lat[oss]) = 150005
          /\ <<wf, oss>> \notin call.iac
    /\ \E p \in call.ec : LatDist(call.oss_lat[p[1]], call.onss_lat[p[2]]) = 500000
    /\ \E oss \in DOMAIN call.oss_lat, onss \in DOMAIN call.onss_lat :
          /\ LatDist(call.oss_lat[oss], call.onss_lat[onss]) = 500005
          /\ <<oss, onss>> \notin call.ec

\* C12: each search returns the pairs within the distance its docstring
\* states and none farther: 150 km for find_viable_iac, 300 km for
\* find_viable_ec.
C12_ViablePairsWithinDocstringDistance ==
    /\ "iac" \in call.returned =>
          \A wf \in DOMAIN call.wf_lat, oss \in DOMAIN call.oss_lat :
              <<wf, oss>> \in call.iac
                  <=> LatDist(call.wf_lat[wf], call.oss_lat[oss])
                          <= IAC_DOCSTRING_KM * 1000
    /\ "ec" \in call.returned =>
          \A oss \in DOMAIN call.oss_lat, onss \in DOMAIN call.onss_lat :
              <<oss, onss>> \in call.ec
                  <=> LatDist(call.oss_lat[oss], call.onss_lat[onss])
                          <= EC_DOCSTRING_KM * 1000

-----------------------------------------------------------------------------
(* Discounted amounts.  present_value multiplies an amount by              *)
(* (1 + discount_rate) ** -year.  The model keeps a discounted amount      *)
(* exactly, as a polynomial in 1 / (1 + discount_rate): the set of the     *)
(* pairs <<e, a>> of an exponent e and the positive amount a that carries  *)
(* the factor (1 + discount_rate) ** -e.  At rate 0 every factor is 1 and  *)
(* all of an amount stays at exponent 0.                                   *)

Amount(a) == IF a = 0 THEN {} ELSE {<<0, a>>}

\* Discounted with the fault of leaving the amount as it is
Discounted_FactorOmitted(p, rate, year) == p

\* p * (1 + rate) ** -year
Discounted(p, rate, year) ==
    IF rate = 0 THEN p
    ELSE {<<t[1] + year, t[2]>> : t \in p}

\* the part of p that carries the factor (1 + rate) ** -e
Part(p, e) ==
    IF \E t \in p : t[1] = e THEN (CHOOSE t \in p : t[1] = e)[2] ELSE 0

\* p + q
PlusAmounts(p, q) ==
    {<<e, Part(p, e) + Part(q, e)>> : e \in {t[1] : t \in p \cup q}}

RECURSIVE SumParts(_)
SumParts(p) ==
    IF p = {} THEN 0
    ELSE LET t == CHOOSE u \in p : TRUE
         IN  t[2] + SumParts(p \ {t})

\* the amount with every discount factor taken as 1
Undiscounted(p) == SumParts(p)

\* p <= n at every positive rate, n a number
AtMostAtPositiveRate(p, n) ==
    /\ Undiscounted(p) <= n
    /\ \A t \in p : t[1] >= 0

\* p < n at every positive rate, n a number
BelowAtPositiveRate(p, n) ==
    /\ AtMostAtPositiveRate(p, n)
    /\ \/ Undiscounted(p) < n
       \/ \E t \in p : t[1] > 0

-----------------------------------------------------------------------------
(* present_value of src/Pyomo-OWE_optimise_radial.py *)

inst_year == 0
ope_year == inst_year + 5
dec_year == ope_year + 25
end_year == dec_year + 2

\* in percent
discount_rate == 5

\* the locals at the start of the loop: year is the loop variable, and
\* factors records, for each cost, the years whose discount factor has been
\* multiplied into it
PvLocals(equip_costs, inst_costs, ope_costs_yearly, deco_costs) ==
    [equip_costs |-> Amount(equip_costs),
     inst_costs |-> Amount(inst_costs),
     ope_costs_yearly |-> Amount(ope_costs_yearly),
     ope_costs |-> Amount(0),
     deco_costs |-> Amount(deco_costs),
     year |-> inst_year,
     factors |-> [equip |-> <<>>, inst |-> <<>>, ope |-> <<>>, deco |-> <<>>]]

\* in_operation with the fault of counting the decommissioning year too
in_operation_Inclusive(year) == year >= ope_year /\ year <= dec_year

\* the condition of the branch that accumulates the operational costs
in_operation(year) == year >= ope_year /\ year < dec_year

\* one iteration of the loop over the years, at discount rate `rate`
pv_year(l, rate) ==
    LET year == l.year
        a == IF year = inst_year
             THEN [l EXCEPT !.equip_costs = Discounted(@, rate, year),
                            !.inst_costs = Discounted(@, rate, year),
                            !.factors.equip = Append(@, year),
                            !.factors.inst = Append(@, year)]
             ELSE l
        b == IF year >= inst_year /\ year < ope_year
             THEN [a EXCEPT !.inst_costs = Discounted(@, rate, year),
                            !.factors.inst = Append(@, year)]
             ELSE IF in_operation(year)
             THEN LET y == Discounted(a.ope_costs_yearly, rate, year)
                  IN  [a EXCEPT !.ope_costs_yearly = y,
                                !.ope_costs = PlusAmounts(@, y),
                                !.factors.ope = Append(@, year)]
             ELSE a
        c == IF year >= dec_year /\ year <= end_year
             THEN [b EXCEPT !.deco_costs = Discounted(@, rate, year),
                            !.factors.deco = Append(@, year)]
             ELSE b
    IN  [c EXCEPT !.year = year + 1]

\* for year in range(inst_year, end_year + 1)
RECURSIVE pv_loop(_, _)
pv_loop(l, rate) ==
    IF l.year > end_year THEN l
    ELSE pv_loop(pv_year(l, rate), rate)

\* total_costs = equip_costs + inst_costs + ope_costs + deco_costs
pv_total(l) ==
    PlusAmounts(PlusAmounts(PlusAmounts(l.equip_costs, l.inst_costs),
                            l.ope_costs), l.deco_costs)

\* what the return statement hands to the caller: total_costs alone
pv_return(l) == [total_costs |-> pv_total(l)]

present_value_at(rate, equip_costs, inst_costs, ope_costs_yearly, deco_costs) ==
    pv_return(pv_loop(PvLocals(equip_costs, inst_costs, ope_costs_yearly, deco_costs),
                      rate))

present_value(equip_costs, inst_costs, ope_costs_yearly, deco_costs) ==
    present_value_at(discount_rate, equip_costs, inst_costs, ope_costs_yearly,
                     deco_costs)

-----------------------------------------------------------------------------
(* export_cable_costs.  The required active power is an integer in 0.1 MW, *)
(* the distance a multiple of 5 so that 1.2 * distance is an integer, and  *)
(* costs are integers in 1/1000 of the source's cost unit, which keeps     *)
(* 0.2 * 1e-2 * equip_costs and 0.5 * inst_costs exact.  Ceiling is the    *)
(* least integer not below its argument.                                   *)

\* (tension kV, section mm^2, resistance in 0.1 mOhm/km, capacitance nF/km,
\*  ampacity A, cost eu/m, inst_cost eu/m)
cable_data ==
    << <<132,  630, 395, 209,  818,  406, 335>>,
       <<132,  800, 324, 217,  888,  560, 340>>,
       <<132, 1000, 275, 238,  949,  727, 350>>,
       <<220,  500, 489, 136,  732,  362, 350>>,
       <<220,  630, 391, 151,  808,  503, 360>>,
       <<220,  800, 319, 163,  879,  691, 370>>,
       <<220, 1000, 270, 177,  942,  920, 380>>,
       <<400,  800, 314, 130,  870,  860, 540>>,
       <<400, 1000, 265, 140,  932,  995, 555>>,
       <<400, 1200, 221, 170,  986, 1130, 570>>,
       <<400, 1400, 189, 180, 1015, 1265, 580>>,
       <<400, 1600, 166, 190, 1036, 1400, 600>>,
       <<400, 2000, 132, 200, 1078, 1535, 615>> >>

required_voltage == 400

meets_voltage(cable) == cable[1] >= required_voltage

\* cable_data after the voltage filter
filtered_cable_data == SelectSeq(cable_data, meets_voltage)

\* least integer n with n * b >= a, for a >= 0 and b > 0
Ceiling(a, b) == (a + b - 1) \div b

\* n_cables with the fault of rounding the ratio down
n_cables_Floor(cable, required_active_power, polarity) ==
    IF polarity = "AC"
    THEN (required_active_power * 1000) \div (9 * cable[1] * cable[5])
    ELSE (required_active_power * 100) \div (cable[1] * cable[5])

\* n_cables with the fault of dividing the capacity by the requirement
n_cables_Inverted(cable, required_active_power, polarity) ==
    IF polarity = "AC"
    THEN Ceiling(9 * cable[1] * cable[5], required_active_power * 1000)
    ELSE Ceiling(cable[1] * cable[5], required_active_power * 100)

\* nominal_power_per_cable = voltage * ampacity, in W: 1000 * cable[1] * cable[5];
\* required_active_power in W: 100000 * required_active_power;
\* AC: Ceiling((required / 0.90) / nominal), DC: Ceiling(required / nominal)
n_cables(cable, required_active_power, polarity) ==
    IF polarity = "AC"
    THEN Ceiling(required_active_power * 1000, 9 * cable[1] * cable[5])
    ELSE Ceiling(required_active_power * 100, cable[1] * cable[5])

\* the loop over the filtered catalog: the list cable_count, or the error
\* raised by a division by n_cables = 0 or by required_active_power = 0
sized_cables(required_active_power, polarity) ==
    IF /\ filtered_cable_data # <<>>
       /\ \/ required_active_power = 0
          \/ \E i \in DOMAIN filtered_cable_data :
                n_cables(filtered_cable_data[i], required_active_power, polarity) = 0
    THEN [error |-> "ZeroDivisionError", cable_count |-> <<>>]
    ELSE [error |-> "none",
          cable_count |->
              [i \in DOMAIN filtered_cable_data |->
                  [cable |-> filtered_cable_data[i],
                   n_cables |-> n_cables(filtered_cable_data[i],
                                         required_active_power, polarity)]]]

\* length = 1.2 * distance
cable_length(distance) == (12 * distance) \div 10

equip_costs_array(cable_count, length) ==
    [i \in DOMAIN cable_count |->
        cable_count[i].cable[6] * length * cable_count[i].n_cables * 1000]

inst_costs_array(cable_count, length) ==
    [i \in DOMAIN cable_count |->
        cable_count[i].cable[7] * length * cable_count[i].n_cables * 1000]

total_costs_array(cable_count, length) ==
    [i \in DOMAIN cable_count |->
        equip_costs_array(cable_count, length)[i]
            + inst_costs_array(cable_count, length)[i]]

\* min_cost_index with the fault of taking the last index of the least
\* element
min_cost_index_Last(totals) ==
    CHOOSE i \in DOMAIN totals :
        /\ \A j \in DOMAIN totals : totals[i] <= totals[j]
        /\ \A j \in DOMAIN totals : totals[j] = totals[i] => i >= j

\* total_costs_array.index(min(total_costs_array)): the first index of the
\* least element
min_cost_index(totals) ==
    CHOOSE i \in DOMAIN totals :
        /\ \A j \in DOMAIN totals : totals[i] <= totals[j]
        /\ \A j \in DOMAIN totals : totals[j] = totals[i] => i <= j

\* lines 213-231: the costs of the cheapest combination and their present
\* value, or the error raised by min() of an empty list
priced_cables(cable_count, distance) ==
    IF cable_count = <<>>
    THEN [error |-> "ValueError"]
    ELSE LET length == cable_length(distance)
             k == min_cost_index(total_costs_array(cable_count, length))
             equip_costs == equip_costs_array(cable_count, length)[k]
             inst_costs == inst_costs_array(cable_count, length)[k]
             ope_costs_yearly == (2 * equip_costs) \div 1000
             deco_costs == (5 * inst_costs) \div 10
         IN  [error |-> "none",
              min_cost_index |-> k,
              equip_costs |-> equip_costs,
              inst_costs |-> inst_costs,
              total_costs |-> present_value(equip_costs, inst_costs,
                                            ope_costs_yearly, deco_costs).total_costs]

-----------------------------------------------------------------------------
(* export_cable_costs called directly *)

MaxPowerSteps == 40

\* 34.8 MW in 0.1 MW: a tenth of the capacity 400 kV * 870 A of the first
\* 400 kV cable, so that the required powers meet whole multiples of a
\* capacity both directly (DC) and after division by 0.90 (AC)
PowerStep == (filtered_cable_data[1][1] * filtered_cable_data[1][5]) \div 1000

RequiredPowers == {k * PowerStep : k \in 0 .. MaxPowerSteps}
CableDistances == {0, 5, 10}
Polarities == {"AC", "DC"}

InitCable ==
    /\ OptModelNotRun
    /\ call \in {[fn |-> "export_cable_costs",
                  distance |-> d, required_active_power |-> p, polarity |-> y,
                  pc |-> "sizing", error |-> "none", cable_count |-> <<>>,
                  result |-> [error |-> "none"]] :
                    d \in CableDistances, p \in RequiredPowers, y \in Polarities}

\* lines 144-210: the catalog, its filter and the sizing loop
SizeCables ==
    /\ call.fn = "export_cable_costs"
    /\ call.pc = "sizing"
    /\ LET sized == sized_cables(call.required_active_power, call.polarity)
       IN  call' = IF sized.error # "none"
                   THEN [call EXCEPT !.pc = "raised", !.error = sized.error]
                   ELSE [call EXCEPT !.pc = "pricing",
                                     !.cable_count = sized.cable_count]
    /\ UNCHANGED optvars

\* lines 213-231: the cost arrays, the cheapest combination, present_value
\* and the return
PriceCables ==
    /\ call.fn = "export_cable_costs"
    /\ call.pc = "pricing"
    /\ LET priced == priced_cables(call.cable_count, call.distance)
       IN  call' = IF priced.error # "none"
                   THEN [call EXCEPT !.pc = "raised", !.error = priced.error]
                   ELSE [call EXCEPT !.pc = "returned", !.result = priced]
    /\ UNCHANGED optvars

NextCable ==
    \/ SizeCables
    \/ PriceCables

SpecCable == InitCable /\ [][NextCable]_vars

\* the priced combination of a call that has returned
PricedCable == call.cable_count[call.result.min_cost_index]

\* C13: in every call of export_cable_costs that prices a combination, the
\* priced count times the per-cable capacity voltage * ampacity is at least
\* the required power: the apparent power P / 0.90 for AC, P for DC.
\* (In W: n * 1000 * kV * A >= 100000 * P / 0.9, resp. >= 100000 * P.)
C13_PricedCablesCarryRequiredPower ==
    call.pc = "returned" =>
        LET capacity == PricedCable.n_cables * PricedCable.cable[1] * PricedCable.cable[5]
        IN  IF call.polarity = "AC"
            THEN 9 * capacity >= 1000 * call.required_active_power
            ELSE capacity >= 100 * call.required_active_power

\* an AC call has priced two or more cables whose capacity equals the
\* required apparent power exactly
C13_Witness ==
    /\ call.pc = "returned"
    /\ PricedCable.n_cables >= 2
    /\ call.polarity = "AC"
    /\ 9 * PricedCable.n_cables * PricedCable.cable[1] * PricedCable.cable[5]
           = 1000 * call.required_active_power

\* C14: for every call and every candidate cable type the computed cable
\* count is at least 1, including when the required power is 0.
C14_CableCountAtLeastOne ==
    call.pc # "sizing" =>
        \A i \in DOMAIN filtered_cable_data :
            n_cables(filtered_cable_data[i], call.required_active_power,
                     call.polarity) >= 1

\* equipment plus installation cost of the combination a call with required
\* power p would price, for the distance and polarity of the current call
ChosenTotal(p) ==
    LET priced == priced_cables(sized_cables(p, call.polarity).cable_count,
                                call.distance)
    IN  priced.equip_costs + priced.inst_costs

\* C15: for a fixed distance and polarity, the equipment plus installation
\* cost of the priced combination never decreases when the required power
\* increases: every smaller required power that is priced costs no more
\* than the current call's.
C15_CostMonotoneInRequiredPower ==
    call.pc = "returned" =>
        \A p \in RequiredPowers :
            (p <= call.required_active_power
                /\ sized_cables(p, call.polarity).error = "none")
            => ChosenTotal(p) <= call.result.equip_costs + call.result.inst_costs

\* a call over a positive distance has priced more than one cable, and a
\* smaller required power is priced strictly cheaper
C15_Witness ==
    /\ call.pc = "returned"
    /\ call.distance > 0
    /\ PricedCable.n_cables >= 2
    /\ \E p \in RequiredPowers :
          /\ p < call.required_active_power
          /\ sized_cables(p, call.polarity).error = "none"
          /\ ChosenTotal(p) < call.result.equip_costs + call.result.inst_costs

-----------------------------------------------------------------------------
(* present_value called directly, one step per year of its loop.  The      *)
(* discount rate is the local constant of line 65; the loop is also run    *)
(* with that constant set to 0.                                            *)

MaxPvCost == 2

PvCosts == 0 .. MaxPvCost
DiscountRates == {0, discount_rate}

InitPv ==
    /\ OptModelNotRun
    /\ call \in {[fn |-> "present_value", rate |-> r,
                  equip_costs |-> e, inst_costs |-> i,
                  ope_costs_yearly |-> o, deco_costs |-> d,
                  pc |-> "loop", locals |-> PvLocals(e, i, o, d),
                  ret |-> [none |-> TRUE]] :
                    r \in DiscountRates, e \in PvCosts, i \in PvCosts,
                    o \in PvCosts, d \in PvCosts}

\* one iteration of the loop over the years
PvYear ==
    /\ call.fn = "present_value"
    /\ call.pc = "loop"
    /\ call.locals.year <= end_year
    /\ call' = [call EXCEPT !.locals = pv_year(@, call.rate)]
    /\ UNCHANGED optvars

\* total_costs and the return
PvReturn ==
    /\ call.fn = "present_value"
    /\ call.pc = "loop"
    /\ call.locals.year > end_year
    /\ call' = [call EXCEPT !.pc = "returned", !.ret = pv_return(call.locals)]
    /\ UNCHANGED optvars

NextPv ==
    \/ PvYear
    \/ PvReturn

SpecPv == InitPv /\ [][NextPv]_vars

\* C17: with the discount rate 0, present_value returns exactly
\* equip_costs + inst_costs + 25 * ope_costs_yearly + deco_costs, for all
\* non-negative inputs.
C17_ZeroRateTotalIsPlainSum ==
    (call.pc = "returned" /\ call.rate = 0) =>
        call.ret.total_costs
            = Amount(call.equip_costs + call.inst_costs
                     + 25 * call.ope_costs_yearly + call.deco_costs)

\* a call at rate 0 with four positive costs has returned
C17_Witness ==
    /\ call.pc = "returned"
    /\ call.rate = 0
    /\ call.equip_costs > 0 /\ call.inst_costs > 0
    /\ call.ope_costs_yearly > 0 /\ call.deco_costs > 0

\* C18: when present_value returns, the equipment cost and the installation
\* cost have each been multiplied by one discount factor, that of year 0,
\* and the decommissioning cost by one discount factor, that of year 30.
C18_OneFactorPerLumpCost ==
    call.pc = "returned" =>
        /\ call.locals.factors.equip = <<0>>
        /\ call.locals.factors.inst = <<0>>
        /\ call.locals.factors.deco = <<30>>

\* C19: present_value returns the discounted total together with the four
\* discounted components.
C19_ReturnsTotalAndComponents ==
    call.pc = "returned" =>
        {"total_costs", "equip_costs", "inst_costs", "ope_costs", "deco_costs"}
            \subseteq DOMAIN call.ret

\* the total present_value returns for the call's costs when the rate is 0
ZeroRateTotal ==
    Undiscounted(present_value_at(0, call.equip_costs, call.inst_costs,
                                  call.ope_costs_yearly, call.deco_costs).total_costs)

\* C20: for all non-negative costs and every positive discount rate, the
\* total returned is strictly less than the total returned at rate 0 for the
\* same costs.
C20_PositiveRateStrictlyLowersTotal ==
    (call.pc = "returned" /\ call.rate > 0) =>
        BelowAtPositiveRate(call.ret.total_costs, ZeroRateTotal)

\* C20 as it holds: for all non-negative costs and every positive discount
\* rate, the total returned is at most the total returned at rate 0 for the
\* same costs; it is strictly less when the yearly operational cost or the
\* decommissioning cost is positive, and equal when the installation,
\* operational and decommissioning costs are all 0.
C20_PositiveRateLowersTotal ==
    (call.pc = "returned" /\ call.rate > 0) =>
        /\ AtMostAtPositiveRate(call.ret.total_costs, ZeroRateTotal)
        /\ (call.ope_costs_yearly > 0 \/ call.deco_costs > 0)
              => BelowAtPositiveRate(call.ret.total_costs, ZeroRateTotal)
        /\ (call.inst_costs = 0 /\ call.ope_costs_yearly = 0 /\ call.deco_costs = 0)
              => call.ret.total_costs = Amount(ZeroRateTotal)

\* a call at a positive rate with positive equipment and operational costs
\* has returned
C20_Witness ==
    /\ call.pc = "returned"
    /\ call.rate > 0
    /\ call.equip_costs > 0
    /\ call.ope_costs_yearly > 0

-----------------------------------------------------------------------------
(* Long integers.  The capacities compared in HVAC_cable_costs are squares *)
(* of powers in W, beyond the 32-bit integers; they are kept exactly as    *)
(* sequences of digits to the base 10000, least significant digit first,   *)
(* with no leading zero (zero is the empty sequence).                     *)

Base == 10000

RECURSIVE BigOf(_)
BigOf(n) == IF n = 0 THEN <<>> ELSE <<n % Base>> \o BigOf(n \div Base)

RECURSIVE BigAddCarry(_, _, _)
BigAddCarry(a, b, carry) ==
    IF a = <<>> /\ b = <<>> THEN BigOf(carry)
    ELSE LET x == IF a = <<>> THEN 0 ELSE Head(a)
             y == IF b = <<>> THEN 0 ELSE Head(b)
             t == x + y + carry
         IN  <<t % Base>> \o BigAddCarry(IF a = <<>> THEN a ELSE Tail(a),
                                         IF b = <<>> THEN b ELSE Tail(b),
                                         t \div Base)

BigAdd(a, b) == BigAddCarry(a, b, 0)

\* a * d for a digit d > 0
RECURSIVE BigTimesDigit(_, _, _)
BigTimesDigit(a, d, carry) ==
    IF a = <<>> THEN BigOf(carry)
    ELSE LET t == Head(a) * d + carry
         IN  <<t % Base>> \o BigTimesDigit(Tail(a), d, t \div Base)

\* a * Base
BigShift(a) == IF a = <<>> THEN a ELSE <<0>> \o a

RECURSIVE BigMul(_, _)
BigMul(a, b) ==
    IF a = <<>> \/ b = <<>> THEN <<>>
    ELSE BigAdd(IF Head(b) = 0 THEN <<>> ELSE BigTimesDigit(a, Head(b), 0),
                BigShift(BigMul(a, Tail(b))))

BigSquare(a) == BigMul(a, a)

\* a >= b
RECURSIVE BigGeq(_, _)
BigGeq(a, b) ==
    IF Len(a) # Len(b) THEN Len(a) > Len(b)
    ELSE IF a = <<>> THEN TRUE
    ELSE IF a[Len(a)] # b[Len(b)] THEN a[Len(a)] > b[Len(b)]
    ELSE BigGeq(SubSeq(a, 1, Len(a) - 1), SubSeq(b, 1, Len(b) - 1))

-----------------------------------------------------------------------------
(* HVAC_cable_costs of src/ArcPy-OWE_calculate_cable_costs_dataset.py.     *)
(* The length is an integer in km, the desired capacity an integer in kW,  *)
(* the desired voltage in kV, and costs are integers in 2 eu, which keeps  *)
(* 0.2 * 1e-2 * equip_costs and 0.5 * inst_costs exact.  pi is 355 / 113.  *)

frequency == 50

\* the thirteen rows (tension, section, resistance, capacitance, ampacity,
\* cost, inst_cost) are those of cable_data
data_tuples == cable_data

\* data_array[data_array[:, 0] == desired_voltage]
data_array(desired_voltage) ==
    LET has_voltage(cable) == cable[1] = desired_voltage
    IN  SelectSeq(data_tuples, has_voltage)

\* calculated_capacity >= desired_capacity for n_cables = count, where
\* calculated_capacity is
\*   sqrt(max(0, (sqrt(3) * voltage * n_cables * ampacity) ** 2
\*               - (.5 * voltage**2 * 2*pi * frequency * capacitance * length) ** 2)).
\* In W, with voltage = 1000 * cable[1], capacitance = cable[4] * 1e-12,
\* length = 1000 * km and desired_capacity = 1000 * kW, the second term is
\* 71 * cable[1]^2 * cable[4] * km / 452 for frequency 50; the comparison is
\* made between the squares, all multiplied by 452^2.
capacity_reached(cable, count, length, desired_capacity) ==
    \/ desired_capacity <= 0
    \/ LET x == BigMul(BigOf(452 * 1000), BigOf(cable[1] * cable[5] * count))
           y == BigMul(BigOf((355 \div 5) * cable[1] * cable[1]),
                       BigOf(cable[4] * length))
           d == BigMul(BigOf(452 * 1000), BigOf(desired_capacity))
       IN  BigGeq(BigTimesDigit(BigSquare(x), 3, 0),
                  BigAdd(BigSquare(d), BigSquare(y)))

\* the count beyond which the sizing loop of a cable type gives up
max_cables == 200

hvac_inst_year == 1
hvac_ope_year == 6
hvac_dec_year == 23
hvac_end_year == 25

\* in percent
hvac_discount_rate == 5

\* one iteration of the discounting loop at the end of HVAC_cable_costs
hvac_pv_year(l, rate) ==
    LET year == l.year
        a == IF year = hvac_inst_year
             THEN [l EXCEPT !.equip_costs = Discounted(@, rate, year),
                            !.inst_costs = Discounted(@, rate, year),
                            !.factors.equip = Append(@, year),
                            !.factors.inst = Append(@, year)]
             ELSE l
        b == IF year >= hvac_inst_year /\ year < hvac_ope_year
             THEN [a EXCEPT !.inst_costs = Discounted(@, rate, year),
                            !.factors.inst = Append(@, year)]
             ELSE IF year >= hvac_ope_year /\ year < hvac_dec_year
             THEN LET y == Discounted(a.ope_costs_yearly, rate, year)
                  IN  [a EXCEPT !.ope_costs_yearly = y,
                                !.ope_costs = PlusAmounts(@, y),
                                !.factors.ope = Append(@, year)]
             ELSE a
        c == IF year >= hvac_dec_year /\ year <= hvac_end_year
             THEN [b EXCEPT !.deco_costs = Discounted(@, rate, year),
                            !.factors.deco = Append(@, year)]
             ELSE b
    IN  [c EXCEPT !.year = year + 1]

RECURSIVE hvac_pv_loop(_, _)
hvac_pv_loop(l, rate) ==
    IF l.year > hvac_end_year THEN l
    ELSE hvac_pv_loop(hvac_pv_year(l, rate), rate)

\* lines 76-134 for a non-empty cable_count: the cost arrays, np.argmin, the
\* discounting loop and the returned tuple (equip_costs, inst_costs,
\* total_costs)
hvac_costs(cable_count, length) ==
    LET equips == [i \in DOMAIN cable_count |->
                      500 * cable_count[i].cable[6] * length
                          * cable_count[i].n_cables]
        insts == [i \in DOMAIN cable_count |->
                     500 * cable_count[i].cable[7] * length
                         * cable_count[i].n_cables]
        k == min_cost_index([i \in DOMAIN cable_count |-> equips[i] + insts[i]])
        start == [PvLocals(equips[k], insts[k], equips[k] \div 500,
                           insts[k] \div 2)
                     EXCEPT !.year = hvac_inst_year]
        l == hvac_pv_loop(start, hvac_discount_rate)
    IN  [error |-> "none",
         min_cost_index |-> k,
         equip_costs |-> l.equip_costs,
         inst_costs |-> l.inst_costs,
         total_costs |-> pv_total(l)]

\* hvac_priced with the fault of returning zero costs when no cable type
\* has a count
hvac_priced_ZeroCost(cable_count, length) ==
    IF cable_count = <<>>
    THEN [error |-> "none", min_cost_index |-> 0, equip_costs |-> Amount(0),
          inst_costs |-> Amount(0), total_costs |-> Amount(0)]
    ELSE hvac_costs(cable_count, length)

\* lines 76-134: np.argmin of an empty array raises ValueError (line 83),
\* before any cost is computed or returned
hvac_priced(cable_count, length) ==
    IF cable_count = <<>>
    THEN [error |-> "ValueError"]
    ELSE hvac_costs(cable_count, length)

\* (length in km, desired capacity in kW): 300 MW and 800 MW over 5 km and
\* 300 km, 56 GW (201 cables of the thinnest 220 kV type) and 200 GW (beyond
\* 201 cables of every type) over 5 km
HvacCases ==
    {<<5, 300000>>, <<5, 800000>>, <<300, 300000>>, <<300, 800000>>,
     <<5, 56000000>>, <<5, 200000000>>, <<5, 40700000>>}

\* 150 kV is no tension of the catalog
HvacVoltages == {132, 150, 220, 400}

InitHvac ==
    /\ OptModelNotRun
    /\ call \in {[fn |-> "HVAC_cable_costs",
                  length |-> c[1], desired_capacity |-> c[2], desired_voltage |-> v,
                  pc |-> "sizing", row |-> 1, n_cables |-> 1, cable_count |-> <<>>,
                  error |-> "none", result |-> [error |-> "none"]] :
                    c \in HvacCases, v \in HvacVoltages}

\* the cable type the sizing loop is at
HvacCable == data_array(call.desired_voltage)[call.row]

HvacSizing ==
    /\ call.fn = "HVAC_cable_costs"
    /\ call.pc = "sizing"
    /\ call.row <= Len(data_array(call.desired_voltage))

HvacReached ==
    capacity_reached(HvacCable, call.n_cables, call.length, call.desired_capacity)

\* if calculated_capacity >= desired_capacity: record the type and its count
HvacRecord ==
    /\ HvacSizing
    /\ HvacReached
    /\ call' = [call EXCEPT
                    !.cable_count = Append(@, [cable |-> HvacCable,
                                               n_cables |-> call.n_cables]),
                    !.row = @ + 1, !.n_cables = 1]
    /\ UNCHANGED optvars

\* HvacGiveUp with the fault of giving up at 200 cables already
HvacGiveUp_At200 ==
    /\ HvacSizing
    /\ ~HvacReached
    /\ call.n_cables >= max_cables
    /\ call' = [call EXCEPT !.row = @ + 1, !.n_cables = 1]
    /\ UNCHANGED optvars

\* elif n_cables > 200: leave the type without a count
HvacGiveUp ==
    /\ HvacSizing
    /\ ~HvacReached
    /\ call.n_cables > max_cables
    /\ call' = [call EXCEPT !.row = @ + 1, !.n_cables = 1]
    /\ UNCHANGED optvars

\* n_cables += 1
HvacOneMoreCable ==
    /\ HvacSizing
    /\ ~HvacReached
    /\ call.n_cables <= max_cables
    /\ call' = [call EXCEPT !.n_cables = @ + 1]
    /\ UNCHANGED optvars

\* after the loop over the cable types: the costs and the return, or the
\* error of np.argmin
HvacPrice ==
    /\ call.fn = "HVAC_cable_costs"
    /\ call.pc = "sizing"
    /\ call.row > Len(data_array(call.desired_voltage))
    /\ LET priced == hvac_priced(call.cable_count, call.length)
       IN  call' = IF priced.error # "none"
                   THEN [call EXCEPT !.pc = "raised", !.error = priced.error]
                   ELSE [call EXCEPT !.pc = "returned", !.result = priced]
    /\ UNCHANGED optvars

NextHvac ==
    \/ HvacRecord
    \/ HvacGiveUp
    \/ HvacOneMoreCable
    \/ HvacPrice

SpecHvac == InitHvac /\ [][NextHvac]_vars

-----------------------------------------------------------------------------
(* offshore_substation_costs of src/Pyomo-OWE_optimise_radial.py and the   *)
(* substation functions of                                                 *)
(* src/ArcPy-OWE_calculate_offshore_substation_costs.py.                   *)
(*                                                                         *)
(* Units.  Money is an integer in 1/20 euro, which keeps the factors 1.10, *)
(* 0.03 and 0.015 exact.  Water depth is in m, capacity in MW and the      *)
(* equivalent capacity in 0.5 MW.  Lengths of the sand island are in dm    *)
(* and its volume in whole m3, pi is 355/113; the foundation cost of a     *)
(* sand island is rounded down to 100 euro, an installation cost to 1 euro.*)

MoneyPerEuro == 20

ISqrt(x) == CHOOSE r \in 0 .. x : r * r <= x /\ (r + 1) * (r + 1) > x

\* floor(a * b / c) without forming a * b
MulDiv(a, b, c) == (a \div c) * b + ((a % c) * b) \div c

None == [none |-> TRUE]
Cost(c) == [costs |-> c]

\* the depth bands of the nested function support_structure
support_structure(water_depth) ==
    IF water_depth < 30 THEN "sandisland"
    ELSE IF 30 <= water_depth /\ water_depth < 150 THEN "jacket"
    ELSE IF 150 <= water_depth THEN "floating"
    ELSE "None"

\* (c1, c2, c3, c4); the row of the sand island is (3.26, 804, 0, 0),
\* held here in hundredths
support_structure_coeff ==
    [sandisland |-> <<326, 80400, 0, 0>>,
     jacket     |-> <<233, 47, 309, 62>>,
     floating   |-> <<87, 68, 116, 91>>]

\* (c5, c6) = (22.87, 7.06) and (102.93, 31.75), in hundredths
equip_coeff == [AC |-> <<2287, 706>>, DC |-> <<10293, 3175>>]

\* 0.5 * oss_capacity for AC, oss_capacity for DC, in 0.5 MW
equiv_capacity(oss_capacity, polarity) ==
    IF polarity = "AC" THEN oss_capacity ELSE 2 * oss_capacity

\* the frustum between the hub radius and the seabed radius, in m3:
\* area_island = 5 * equiv_capacity m2 = 250 * equiv dm2, slope = 0.75,
\* (1/3) * slope * pi = pi / 4
volume_island(water_depth, equiv) ==
    LET area_island == 250 * equiv
        r_hub       == ISqrt((area_island * 113) \div 355)
        r_seabed    == r_hub + (40 * (water_depth + 3)) \div 3
        cubes       == r_seabed * r_seabed * r_seabed - r_hub * r_hub * r_hub
    IN  (355 * (cubes \div 1000)) \div 452

\* supp_costs before the ice cover factor
foundation_costs(water_depth, supp_structure, equiv) ==
    LET c == support_structure_coeff[supp_structure]
    IN  IF supp_structure = "sandisland"
        THEN 100 * MoneyPerEuro *
               (((c[1] * volume_island(water_depth, equiv)) \div 100
                  + (c[2] * 5 * equiv) \div 200) \div 100)
        ELSE (MoneyPerEuro \div 2) * (c[1] * water_depth + c[2] * 1000) * equiv
               + MoneyPerEuro * (c[3] * water_depth + c[4] * 1000)

\* the ice cover factor is omitted
ice_cover_costs_Omitted(supp_costs, ice_cover) == supp_costs

\* supp_costs = 1.10 * supp_costs if ice_cover == 1 else supp_costs
ice_cover_costs(supp_costs, ice_cover) ==
    IF ice_cover = 1 THEN (11 * supp_costs) \div 10 ELSE supp_costs

\* conv_costs = c5 * oss_capacity * 1e3 + c6 * 1e6
converter_costs(oss_capacity, polarity) ==
    LET c == equip_coeff[polarity]
    IN  MoneyPerEuro * (c[1] * oss_capacity * 10 + c[2] * 10000)

\* the nested function equip_costs
oss_equip_costs(water_depth, supp_structure, ice_cover, oss_capacity, polarity) ==
    IF supp_structure \notin DOMAIN support_structure_coeff
    THEN [error |-> "KeyError", supp_costs |-> 0, conv_costs |-> 0,
          equip_costs |-> 0]
    ELSE LET supp == ice_cover_costs(
                        foundation_costs(water_depth, supp_structure,
                            equiv_capacity(oss_capacity, polarity)),
                        ice_cover)
             conv == converter_costs(oss_capacity, polarity)
         IN  [error |-> "none", supp_costs |-> supp, conv_costs |-> conv,
              equip_costs |-> supp + conv]

\* (c1, c2, c3, c4, c5) per vessel, the speed c2 in 0.1 km/h.  The source
\* keys the rows by ('sandisland','SUBV'), 'jacketPSIV', ('floating','HLCV')
\* and ('floating','AHV').
inst_coeff ==
    [SUBV |-> <<20000, 250, 2000, 6000, 15>>,
     PSIV |-> <<1, 185, 24, 96, 200>>,
     HLCV |-> <<1, 225, 10, 0, 40>>,
     AHV  |-> <<3, 185, 30, 90, 40>>]

deco_coeff ==
    [SUBV |-> <<20000, 250, 2000, 6000, 15>>,
     PSIV |-> <<1, 185, 24, 96, 200>>,
     HLCV |-> <<1, 225, 10, 0, 40>>,
     AHV  |-> <<3, 185, 30, 30, 40>>]

\* ((1 / c1) * ((2 * port_distance) / c2 + c3) + c4) * (c5 * 1000) / 24
\* in whole euro, port_distance in km
vessel_costs(c, port_distance) ==
    ((20 * port_distance + (c[3] + c[4] * c[1]) * c[2]) * c[5] * 125)
        \div (c[1] * c[2] * 3)

\* ((volume / c1) * ((2 * port_distance) / c2) + volume / c3 + volume / c4)
\*   * (c5 * 1000) / 24 with the row SUBV, in whole euro: (c5 * 1000) / 24 is
\* 625, 625 * 2 / (c1 * c2) is 1/400 and 625 * (1 / c3 + 1 / c4) is 5/12
island_vessel_costs(volume, port_distance) ==
    (volume * (3 * port_distance + 500)) \div 1200

\* the nested function inst_deco_costs
oss_inst_deco_costs(water_depth, supp_structure, port_distance, oss_capacity, polarity, operation) ==
    LET coeff == IF operation = "inst" THEN inst_coeff ELSE deco_coeff
        depth == IF water_depth < 0 THEN 0 ELSE water_depth
    IN  IF supp_structure = "sandisland"
        THEN Cost(MoneyPerEuro * island_vessel_costs(
                     volume_island(depth, equiv_capacity(oss_capacity, polarity)),
                     port_distance))
        ELSE IF supp_structure = "jacket"
        THEN Cost(MoneyPerEuro * vessel_costs(coeff.PSIV, port_distance))
        ELSE IF supp_structure = "floating"
        THEN Cost(MoneyPerEuro * (vessel_costs(coeff.HLCV, port_distance)
                                   + vessel_costs(coeff.AHV, port_distance)))
        ELSE None

\* the nested function oper_costs
oss_oper_costs(supp_structure, supp_costs, conv_costs) ==
    IF supp_structure = "sandisland"
    THEN MulDiv(conv_costs, 3, 100) + MulDiv(supp_costs, 3, 200)
    ELSE MulDiv(conv_costs, 3, 100)

\* what line 391 passes as the first argument of oper_costs: the name
\* support_structure, which is bound to the nested function of line 248
support_structure_function == "function support_structure"

\* determine_support_structure of the ArcPy script
determine_support_structure(water_depth) ==
    IF 0 <= water_depth /\ water_depth < 30 THEN "sandisland"
    ELSE IF 30 <= water_depth /\ water_depth < 150 THEN "jacket"
    ELSE IF 150 <= water_depth THEN "floating"
    ELSE "default"

\* calc_equip_costs of the ArcPy script: the foundation cost alone
calc_equip_costs(water_depth, oss_capacity, HVC_type) ==
    LET supp_structure == determine_support_structure(water_depth)
    IN  IF supp_structure \notin DOMAIN support_structure_coeff
        THEN [error |-> "KeyError", ret |-> None]
        ELSE [error |-> "none",
              ret |-> Cost(foundation_costs(water_depth, supp_structure,
                              equiv_capacity(oss_capacity, HVC_type)))]

\* line 128, in whole euro, port_distance in m:
\* (volume / c1) * ((2 * port_distance / 1000) / c2) + (volume / c3)
\*   + (volume / c4) * (c5 * 1000) / 24
calc_costs_island(c, volume, port_distance) ==
    (volume * (port_distance \div 50)) \div (c[1] * c[2])
      + volume \div c[3]
      + MulDiv(volume, c[5] * 125, 3 * c[4])

\* line 132, in whole euro, port_distance in m
calc_costs_jacket(c, port_distance) ==
    ((port_distance \div 50 + (c[3] + c[4] * c[1]) * c[2]) * c[5] * 125)
        \div (c[1] * c[2] * 3)

\* line 141, in whole euro, port_distance in m:
\* ((1 if HLCV else 3) / c1) * ((2 * port_distance / 1000) / c2 + c3)
\*   + c4 * (c5 * 1000) / 24
calc_costs_vessel(c, lifts, port_distance) ==
    (lifts * (port_distance \div 50 + c[3] * c[2])) \div (c[1] * c[2])
      + (c[4] * c[5] * 125) \div 3

\* calc_costs of the ArcPy script
calc_costs(water_depth, port_distance, oss_capacity, HVC_type, operation) ==
    LET coeff == IF operation = "installation" THEN inst_coeff ELSE deco_coeff
        supp_structure == determine_support_structure(water_depth)
    IN  IF supp_structure = "sandisland"
        THEN Cost(MoneyPerEuro * calc_costs_island(coeff.PSIV,
                     volume_island(water_depth,
                                   equiv_capacity(oss_capacity, HVC_type)),
                     port_distance))
        ELSE IF supp_structure = "jacket"
        THEN Cost(MoneyPerEuro * calc_costs_jacket(coeff.PSIV, port_distance))
        ELSE IF supp_structure = "floating"
        THEN Cost(MoneyPerEuro * (calc_costs_vessel(coeff.HLCV, 1, port_distance)
                                   + calc_costs_vessel(coeff.AHV, 3, port_distance)))
        ELSE None

-----------------------------------------------------------------------------
(* The substation cost functions called directly: offshore_substation_costs*)
(* one step per line of its body, calc_equip_costs and calc_costs one step *)
(* for the regime and one for the cost.  The depths lie on both sides of   *)
(* the band limits 30 m and 150 m.  The ArcPy script inverts the sign of   *)
(* the raster value, so that a cell above sea level gives a negative depth.*)

OssDepths == {0, 29, 30, 31, 149, 150, 151}
ArcDepths == OssDepths \cup {-1}
IceCovers == {0, 1}
OssCapacities == {0, 50, 100}
PortDistances == {0, 100}
ArcPortDistances == {0, 100000}
ArcOperations == {"inst", "deco", "installation"}

InitOss ==
    /\ OptModelNotRun
    /\ \/ call \in {[fn |-> "offshore_substation_costs",
                     water_depth |-> d, ice_cover |-> i, port_distance |-> p,
                     oss_capacity |-> c, polarity |-> pol,
                     pc |-> "support_structure", supp_structure |-> "unset",
                     supp_costs |-> 0, conv_costs |-> 0, equip_costs |-> 0,
                     inst_costs |-> None, deco_costs |-> None,
                     ope_costs_yearly |-> 0, oss_costs |-> {},
                     error |-> "none"] :
                        d \in OssDepths, i \in IceCovers, p \in PortDistances,
                        c \in OssCapacities, pol \in Polarities}
       \/ call \in {[fn |-> "calc_equip_costs",
                     water_depth |-> d, port_distance |-> 0,
                     oss_capacity |-> c, HVC_type |-> pol, operation |-> "inst",
                     pc |-> "determine_support_structure",
                     supp_structure |-> "unset", ret |-> None,
                     error |-> "none"] :
                        d \in ArcDepths, c \in OssCapacities, pol \in Polarities}
       \/ call \in {[fn |-> "calc_costs",
                     water_depth |-> d, port_distance |-> p,
                     oss_capacity |-> c, HVC_type |-> pol, operation |-> op,
                     pc |-> "determine_support_structure",
                     supp_structure |-> "unset", ret |-> None,
                     error |-> "none"] :
                        d \in ArcDepths, p \in ArcPortDistances,
                        c \in OssCapacities, pol \in Polarities,
                        op \in ArcOperations}

\* line 381
OssSupportStructure ==
    /\ call.fn = "offshore_substation_costs"
    /\ call.pc = "support_structure"
    /\ call' = [call EXCEPT !.supp_structure = support_structure(call.water_depth),
                            !.pc = "equip_costs"]
    /\ UNCHANGED optvars

\* line 384
OssEquipCosts ==
    /\ call.fn = "offshore_substation_costs"
    /\ call.pc = "equip_costs"
    /\ LET r == oss_equip_costs(call.water_depth, call.supp_structure,
                                call.ice_cover, call.oss_capacity, call.polarity)
       IN  call' = IF r.error # "none"
                   THEN [call EXCEPT !.error = r.error, !.pc = "raised"]
                   ELSE [call EXCEPT !.supp_costs = r.supp_costs,
                                     !.conv_costs = r.conv_costs,
                                     !.equip_costs = r.equip_costs,
                                     !.pc = "inst_costs"]
    /\ UNCHANGED optvars

\* line 387
OssInstCosts ==
    /\ call.fn = "offshore_substation_costs"
    /\ call.pc = "inst_costs"
    /\ call' = [call EXCEPT !.inst_costs =
                    oss_inst_deco_costs(call.water_depth, call.supp_structure,
                        call.port_distance, call.oss_capacity, call.polarity,
                        "inst"),
                            !.pc = "deco_costs"]
    /\ UNCHANGED optvars

\* line 388
OssDecoCosts ==
    /\ call.fn = "offshore_substation_costs"
    /\ call.pc = "deco_costs"
    /\ call' = [call EXCEPT !.deco_costs =
                    oss_inst_deco_costs(call.water_depth, call.supp_structure,
                        call.port_distance, call.oss_capacity, call.polarity,
                        "deco"),
                            !.pc = "oper_costs"]
    /\ UNCHANGED optvars

\* line 391
OssOperCosts ==
    /\ call.fn = "offshore_substation_costs"
    /\ call.pc = "oper_costs"
    /\ call' = [call EXCEPT !.ope_costs_yearly =
                    oss_oper_costs(support_structure_function,
                                   call.supp_costs, call.conv_costs),
                            !.pc = "present_value"]
    /\ UNCHANGED optvars

\* lines 394 and 396
OssPresentValue ==
    /\ call.fn = "offshore_substation_costs"
    /\ call.pc = "present_value"
    /\ call' = [call EXCEPT !.oss_costs =
                    present_value(call.equip_costs, call.inst_costs.costs,
                                  call.ope_costs_yearly,
                                  call.deco_costs.costs).total_costs,
                            !.pc = "returned"]
    /\ UNCHANGED optvars

\* lines 38 and 113 of the ArcPy script
ArcDetermineSupportStructure ==
    /\ call.fn \in {"calc_equip_costs", "calc_costs"}
    /\ call.pc = "determine_support_structure"
    /\ call' = [call EXCEPT !.supp_structure =
                                determine_support_structure(call.water_depth),
                            !.pc = "costs"]
    /\ UNCHANGED optvars

\* lines 41 to 59 of the ArcPy script
ArcCalcEquipCosts ==
    /\ call.fn = "calc_equip_costs"
    /\ call.pc = "costs"
    /\ LET r == calc_equip_costs(call.water_depth, call.oss_capacity,
                                 call.HVC_type)
       IN  call' = IF r.error # "none"
                   THEN [call EXCEPT !.error = r.error, !.pc = "raised"]
                   ELSE [call EXCEPT !.ret = r.ret, !.pc = "returned"]
    /\ UNCHANGED optvars

\* lines 115 to 148 of the ArcPy script
ArcCalcCosts ==
    /\ call.fn = "calc_costs"
    /\ call.pc = "costs"
    /\ call' = [call EXCEPT !.ret = calc_costs(call.water_depth,
                                        call.port_distance, call.oss_capacity,
                                        call.HVC_type, call.operation),
                            !.pc = "returned"]
    /\ UNCHANGED optvars

NextOss ==
    \/ OssSupportStructure
    \/ OssEquipCosts
    \/ OssInstCosts
    \/ OssDecoCosts
    \/ OssOperCosts
    \/ OssPresentValue
    \/ ArcDetermineSupportStructure
    \/ ArcCalcEquipCosts
    \/ ArcCalcCosts

SpecOss == InitOss /\ [][NextOss]_vars

\* the regime of a depth as the three bands define it
Regimes == {"sandisland", "jacket", "floating"}

DepthBand(water_depth) ==
    IF water_depth < 30 THEN "sandisland"
    ELSE IF water_depth < 150 THEN "jacket"
    ELSE "floating"

OssAfter(steps) ==
    /\ call.fn = "offshore_substation_costs"
    /\ call.pc \in steps

ArcAfterRegime ==
    /\ call.fn \in {"calc_equip_costs", "calc_costs"}
    /\ call.pc # "determine_support_structure"

\* C21: every water depth gets the regime of its band (below 30 m the sand
\* island, from 30 m to below 150 m the jacket, from 150 m on the floating
\* structure), in offshore_substation_costs and in the ArcPy script alike,
\* and the foundation cost is the one of that regime's formula.
C21_DepthBandSelectsRegimeAndFormula ==
    /\ OssAfter({"equip_costs", "inst_costs", "deco_costs", "oper_costs",
                 "present_value", "returned"})
          => call.supp_structure = DepthBand(call.water_depth)
    /\ OssAfter({"inst_costs", "deco_costs", "oper_costs", "present_value",
                 "returned"})
          => call.supp_costs =
                ice_cover_costs(
                    foundation_costs(call.water_depth,
                        DepthBand(call.water_depth),
                        equiv_capacity(call.oss_capacity, call.polarity)),
                    call.ice_cover)
    /\ ArcAfterRegime => call.supp_structure = DepthBand(call.water_depth)
    /\ (call.fn = "calc_equip_costs" /\ call.pc \in {"returned", "raised"})
          => /\ call.pc = "returned"
             /\ call.ret =
                  Cost(foundation_costs(call.water_depth,
                          DepthBand(call.water_depth),
                          equiv_capacity(call.oss_capacity, call.HVC_type)))

\* C22: the yearly operational cost that offshore_substation_costs passes
\* to present_value is 3 % of the converter cost, plus 1.5 % of the
\* foundation cost when the regime is the sand island.
C22_OperationalCostByRegime ==
    OssAfter({"present_value", "returned"})
        => call.ope_costs_yearly =
              IF call.supp_structure = "sandisland"
              THEN MulDiv(call.conv_costs, 3, 100)
                     + MulDiv(call.supp_costs, 3, 200)
              ELSE MulDiv(call.conv_costs, 3, 100)

\* C23: a call whose regime is none of sand island, jacket, floating ends
\* in an error, and no cost function returns None in place of a cost.
C23_UnrecognisedRegimeRaises ==
    /\ (ArcAfterRegime /\ call.pc # "costs" /\ call.supp_structure \notin Regimes)
          => call.pc = "raised"
    /\ (ArcAfterRegime /\ call.pc = "returned") => call.ret # None
    /\ OssAfter({"deco_costs", "oper_costs", "present_value", "returned"})
          => call.inst_costs # None
    /\ OssAfter({"oper_costs", "present_value", "returned"})
          => call.deco_costs # None

-----------------------------------------------------------------------------
(* The cheapest cable type of export_cable_costs *)

\* equipment plus installation cost of the i-th sized type: per-length cost
\* times 1.2 * distance times the cable count
TypeTotal(i) ==
    LET c == call.cable_count[i]
    IN  (c.cable[6] + c.cable[7]) * ((12 * call.distance) \div 10)
            * c.n_cables * 1000

\* the rows of the catalog at or above the voltage floor, in catalog order
RowsAtVoltageFloor ==
    {r \in DOMAIN cable_data : cable_data[r][1] >= required_voltage}

\* C25: a call of export_cable_costs that returns has priced a type of the
\* catalog at or above the voltage floor whose total of equipment and
\* installation cost (each the per-length cost times 1.2 * distance times
\* the cable count) is the least among those types, and among the types of
\* that least total the first in catalog order.
C25_CheapestTypeFirstOnTies ==
    call.pc = "returned" =>
        LET k == call.result.min_cost_index
            c == call.cable_count[k]
            length == (12 * call.distance) \div 10
        IN  /\ Len(call.cable_count) = Cardinality(RowsAtVoltageFloor)
            /\ \A i \in DOMAIN call.cable_count :
                  \E r \in RowsAtVoltageFloor :
                      /\ call.cable_count[i].cable = cable_data[r]
                      /\ Cardinality({q \in RowsAtVoltageFloor : q < r}) = i - 1
            /\ call.result.equip_costs = c.cable[6] * length * c.n_cables * 1000
            /\ call.result.inst_costs = c.cable[7] * length * c.n_cables * 1000
            /\ \A j \in DOMAIN call.cable_count : TypeTotal(k) <= TypeTotal(j)
            /\ \A j \in DOMAIN call.cable_count :
                  j < k => TypeTotal(j) > TypeTotal(k)

\* a call that priced a type other than the first of the filtered catalog,
\* at a positive distance
C25_Witness ==
    /\ call.fn = "export_cable_costs"
    /\ call.pc = "returned"
    /\ call.distance > 0
    /\ call.result.min_cost_index > 1
    /\ \E j \in DOMAIN call.cable_count :
          TypeTotal(j) > TypeTotal(call.result.min_cost_index)

-----------------------------------------------------------------------------
(* The operational part of present_value *)

\* the yearly cost of the call discounted year by year over the operational
\* years, each year by its own factor
YearlyOperationalSum ==
    IF call.ope_costs_yearly = 0 THEN {}
    ELSE IF call.rate = 0
    THEN Amount((dec_year - ope_year) * call.ope_costs_yearly)
    ELSE {<<year, call.ope_costs_yearly>> : year \in ope_year .. dec_year - 1}

\* C26: the operational part of the total that present_value returns is the
\* sum over the operational years 5..29 of the caller's yearly cost times
\* the discount factor of that year alone.
C26_OperationalPartIsYearlySum ==
    (call.fn = "present_value" /\ call.pc = "returned")
        => call.locals.ope_costs = YearlyOperationalSum

-----------------------------------------------------------------------------
(* present_value of src/plot_cost_eh.py, and the two present_value         *)
(* functions run on the same costs, one year of both loops per step.  The  *)
(* years and the discount rate of lines 27 to 33 of plot_cost_eh.py are    *)
(* those of the radial file.                                               *)

\* the locals of plot_cost_eh's present_value before its loop
PlotPvLocals(equip_cost, inst_cost, ope_cost_yearly, deco_cost) ==
    [equip_cost |-> Amount(equip_cost),
     inst_cost |-> Amount(inst_cost),
     ope_cost_yearly |-> Amount(ope_cost_yearly),
     total_ope_cost |-> {},
     deco_cost |-> Amount(deco_cost),
     year |-> inst_year]

\* one iteration of the loop of plot_cost_eh's present_value
plot_pv_year(l, rate) ==
    LET year == l.year
        a == IF year = inst_year
             THEN [l EXCEPT !.equip_cost = Discounted(@, rate, year),
                            !.inst_cost = Discounted(@, rate, year)]
             ELSE IF ope_year <= year /\ year < dec_year
             THEN [l EXCEPT !.total_ope_cost =
                        PlusAmounts(@, Discounted(l.ope_cost_yearly, rate, year))]
             ELSE IF year = dec_year
             THEN [l EXCEPT !.deco_cost = Discounted(@, rate, year)]
             ELSE l
    IN  [a EXCEPT !.year = year + 1]

\* total_cost and the tuple plot_cost_eh's present_value returns
plot_pv_return(l) ==
    [total_cost |->
        PlusAmounts(PlusAmounts(PlusAmounts(l.equip_cost, l.inst_cost),
                                l.total_ope_cost), l.deco_cost),
     equip_cost |-> l.equip_cost,
     inst_cost |-> l.inst_cost,
     total_ope_cost |-> l.total_ope_cost,
     deco_cost |-> l.deco_cost]

InitPvBoth ==
    /\ OptModelNotRun
    /\ call \in {[fn |-> "present_value of both files", rate |-> r,
                  equip_costs |-> e, inst_costs |-> i,
                  ope_costs_yearly |-> o, deco_costs |-> d,
                  pc |-> "loop",
                  locals |-> PvLocals(e, i, o, d),
                  plot_locals |-> PlotPvLocals(e, i, o, d),
                  ret |-> [none |-> TRUE], plot_ret |-> [none |-> TRUE]] :
                    r \in DiscountRates, e \in PvCosts, i \in PvCosts,
                    o \in PvCosts, d \in PvCosts}

\* one iteration of each loop, for the same year
PvBothYear ==
    /\ call.fn = "present_value of both files"
    /\ call.pc = "loop"
    /\ call.locals.year <= end_year
    /\ call' = [call EXCEPT !.locals = pv_year(@, call.rate),
                            !.plot_locals = plot_pv_year(@, call.rate)]
    /\ UNCHANGED optvars

\* both functions return
PvBothReturn ==
    /\ call.fn = "present_value of both files"
    /\ call.pc = "loop"
    /\ call.locals.year > end_year
    /\ call' = [call EXCEPT !.pc = "returned",
                            !.ret = pv_return(call.locals),
                            !.plot_ret = plot_pv_return(call.plot_locals)]
    /\ UNCHANGED optvars

NextPvBoth ==
    \/ PvBothYear
    \/ PvBothReturn

SpecPvBoth == InitPvBoth /\ [][NextPvBoth]_vars

\* C28: run on the same four costs, year by year over the years 0..32, the
\* present_value of the radial file and the present_value of plot_cost_eh.py
\* end with equal equipment, installation, operational and decommissioning
\* parts and return the same total.
C28_BothPresentValuesAgree ==
    call.pc = "returned" =>
        /\ call.ret.total_costs = call.plot_ret.total_cost
        /\ call.locals.equip_costs = call.plot_ret.equip_cost
        /\ call.locals.inst_costs = call.plot_ret.inst_cost
        /\ call.locals.ope_costs = call.plot_ret.total_ope_cost
        /\ call.locals.deco_costs = call.plot_ret.deco_cost

-----------------------------------------------------------------------------
(* The capacity expressions of opt_model *)

\* the values of iac_cap_exp, oss_cap_exp and ec_cap_exp of model m under
\* the assignment a of its selection variables
CapacityExpressions(m, a) ==
    [iac |-> [p \in m.viable_iac_ids |-> iac_capacity_rule(m, a, p[1], p[2])],
     oss |-> [oss \in m.oss_ids |-> oss_capacity_rule(m, a, oss)],
     ec |-> [p \in m.viable_ec_ids |-> ec_capacity_rule(m, a, p[1], p[2])]]

\* the assignment a with every wind-farm and substation variable set to 0
EntitiesUnselected(a) ==
    [a EXCEPT !.wf = [wf \in DOMAIN a.wf |-> 0],
              !.oss = [oss \in DOMAIN a.oss |-> 0]]

\* C27: in the model opt_model has built, under every
\* assignment of the binary selection variables iac_cap_exp[wf, oss] is
\* wf_cap[wf] times select_iac_var[wf, oss], oss_cap_exp[oss] is the sum of
\* wf_cap over the farms with an active viable inter-array edge to oss, and
\* ec_cap_exp[oss, onss] is oss_cap_exp[oss] times select_ec_var[oss, onss];
\* and changing selection variables changes exactly the capacities that
\* depend on them: the wind-farm and substation variables none, one
\* inter-array variable its own inter-array capacity, the capacity of its
\* substation and the capacities of that substation's active export edges
\* (when the farm has capacity), one export variable its own export capacity
\* (when the substation carries capacity).  The changes of one edge variable
\* are checked from the assignments with no entity selected, which by the
\* second conjunct have the capacities of every other assignment.
C27_CapacitiesFollowSelection ==
    (pc = "done" /\ "oss_cap_exp" \in model.expressions) =>
        \A a \in Assignments(model) :
            LET c == CapacityExpressions(model, a)
            IN  /\ \A p \in model.viable_iac_ids :
                      c.iac[p] = files.wf[p[1]].cap * a.iac[p]
                /\ \A oss \in model.oss_ids :
                      c.oss[oss] = ConnectedCap(files, a, oss)
                /\ \A p \in model.viable_ec_ids :
                      c.ec[p] = ConnectedCap(files, a, p[1]) * a.ec[p]
                /\ c = CapacityExpressions(model, EntitiesUnselected(a))
                /\ a = EntitiesUnselected(a) =>
                      /\ \A p \in model.select_iac_var :
                            LET d == CapacityExpressions(model,
                                         [a EXCEPT !.iac[p] = 1 - @])
                                cap == files.wf[p[1]].cap
                            IN  /\ \A q \in model.viable_iac_ids :
                                      d.iac[q] # c.iac[q] <=> (q = p /\ cap > 0)
                                /\ \A oss \in model.oss_ids :
                                      d.oss[oss] # c.oss[oss]
                                          <=> (oss = p[2] /\ cap > 0)
                                /\ \A q \in model.viable_ec_ids :
                                      d.ec[q] # c.ec[q]
                                          <=> (q[1] = p[2] /\ cap > 0 /\ a.ec[q] = 1)
                      /\ \A p \in model.select_ec_var :
                            LET d == CapacityExpressions(model,
                                         [a EXCEPT !.ec[p] = 1 - @])
                            IN  /\ d.iac = c.iac
                                /\ d.oss = c.oss
                                /\ \A q \in model.viable_ec_ids :
                                      d.ec[q] # c.ec[q]
                                          <=> (q = p /\ c.oss[p[1]] > 0)

\* a finished run has defined the expressions on a model with a non-viable
\* pair, and under
\* some assignment a substation collects the capacity of one farm of two
C27_Witness ==
    /\ pc = "done"
    /\ "oss_cap_exp" \in model.expressions
    /\ model.select_iac_var # model.wf_ids \X model.oss_ids
    /\ \E a \in Assignments(model) :
          \E oss \in model.oss_ids :
              /\ \E wf \in model.wf_ids :
                    /\ <<wf, oss>> \in model.viable_iac_ids
                    /\ a.iac[<<wf, oss>>] = 0
                    /\ model.wf_cap[wf] > 0
              /\ oss_capacity_rule(model, a, oss) > 0
              /\ \E onss \in model.onss_ids :
                    /\ <<oss, onss>> \in model.viable_ec_ids
                    /\ ec_capacity_rule(model, a, oss, onss) > 0

-----------------------------------------------------------------------------
(* The sizing loop of HVAC_cable_costs *)

\* the counts 1..201 at which a cable type reaches the desired capacity
ReachingCounts(cable) ==
    {n \in 1 .. max_cables + 1 :
        capacity_reached(cable, n, call.length, call.desired_capacity)}

\* the entries of cable_count for a cable type
CountsRecorded(cable) ==
    {i \in DOMAIN call.cable_count : call.cable_count[i].cable = cable}

HvacSizingBounded ==
    call.fn = "HVAC_cable_costs" => call.n_cables \in 1 .. max_cables + 1

HvacSizingEnded == call.pc \in {"returned", "raised"}

HvacLeastCountsRecorded ==
    HvacSizingEnded =>
        \A r \in DOMAIN data_array(call.desired_voltage) :
            LET cable == data_array(call.desired_voltage)[r]
                reaching == ReachingCounts(cable)
            IN  IF reaching = {}
                THEN CountsRecorded(cable) = {}
                ELSE /\ Cardinality(CountsRecorded(cable)) = 1
                     /\ \A i \in CountsRecorded(cable) :
                           /\ call.cable_count[i].n_cables \in reaching
                           /\ \A n \in reaching :
                                 call.cable_count[i].n_cables <= n

\* a step of the sizing loops passes to the next count of the cable type,
\* passes to the next cable type, or leaves the loops
HvacSizingAdvances ==
    (call.fn = "HVAC_cable_costs" /\ call.pc = "sizing") =>
        \/ call'.pc = "sizing" /\ call'.row = call.row
              /\ call'.n_cables = call.n_cables + 1
        \/ call'.pc = "sizing" /\ call'.row = call.row + 1
              /\ call'.n_cables = 1
        \/ call'.pc # "sizing"
              /\ call.row > Len(data_array(call.desired_voltage))

\* C29: in HVAC_cable_costs every iteration of the sizing loop of a cable
\* type raises the count by one or ends the loop, and the count never
\* exceeds 201, so that the loop ends after at most 201 iterations; when the
\* loops have ended, a type is recorded, once, with the least count in
\* 1..201 whose capacity is at least the desired capacity, and a type that
\* no count in 1..201 brings to the desired capacity is not recorded.
C29_SizingLoopEndsWithLeastCounts ==
    /\ [](HvacSizingBounded /\ HvacLeastCountsRecorded)
    /\ [][HvacSizingAdvances]_vars

\* a call has ended with one type recorded at 201 cables and another type
\* left without a count
C29_Witness ==
    /\ call.fn = "HVAC_cable_costs"
    /\ HvacSizingEnded
    /\ \E i \in DOMAIN call.cable_count :
          call.cable_count[i].n_cables = max_cables + 1
    /\ Len(call.cable_count) < Len(data_array(call.desired_voltage))

-----------------------------------------------------------------------------
(* create_and_add_inter_array_cables of src/generate_polyline_iac.py for   *)
(* the turbines and the substation of one wind farm: the minimum spanning  *)
(* tree, one step per edge that Kruskal's algorithm looks at, the link to  *)
(* the substation, and the traversal accumulate_capacity, one step per     *)
(* call, per neighbour and per return.                                     *)
(*                                                                         *)
(* A point is <<lon, lat>> in 1/100 degree.  The turbines stand on a grid  *)
(* of 0.02 degree of longitude by 0.01 degree of latitude at 60 N, and     *)
(* haversine, which returns whole metres, is tabulated for that grid.      *)

turbine_capacity == 15

MaxTurbines == 4

\* <<|lon2 - lon1|, lat1, lat2, round(distance)>>
HaversineTable ==
    {
     <<0, 5999, 5999, 0>>, <<0, 5999, 6000, 1112>>, <<0, 5999, 6001, 2224>>,
     <<0, 6000, 5999, 1112>>, <<0, 6000, 6000, 0>>, <<0, 6000, 6001, 1112>>,
     <<0, 6001, 5999, 2224>>, <<0, 6001, 6000, 1112>>, <<0, 6001, 6001, 0>>,
     <<2, 5999, 5999, 1112>>, <<2, 5999, 6000, 1573>>, <<2, 5999, 6001, 2486>>,
     <<2, 6000, 5999, 1573>>, <<2, 6000, 6000, 1112>>, <<2, 6000, 6001, 1572>>,
     <<2, 6001, 5999, 2486>>, <<2, 6001, 6000, 1572>>, <<2, 6001, 6001, 1112>>,
     <<4, 5999, 5999, 2225>>, <<4, 5999, 6000, 2487>>, <<4, 5999, 6001, 3145>>,
     <<4, 6000, 5999, 2487>>, <<4, 6000, 6000, 2224>>, <<4, 6000, 6001, 2486>>,
     <<4, 6001, 5999, 3145>>, <<4, 6001, 6000, 2486>>, <<4, 6001, 6001, 2223>>,
     <<6, 5999, 5999, 3337>>, <<6, 5999, 6000, 3517>>, <<6, 5999, 6001, 4009>>,
     <<6, 6000, 5999, 3517>>, <<6, 6000, 6000, 3336>>, <<6, 6000, 6001, 3516>>,
     <<6, 6001, 5999, 4009>>, <<6, 6001, 6000, 3516>>, <<6, 6001, 6001, 3335>>}

\* haversine of generate_polyline_iac.py
iac_haversine(lat1, lon1, lat2, lon2) ==
    (CHOOSE t \in HaversineTable :
        t[1] = Abs(lon2 - lon1) /\ t[2] = lat1 /\ t[3] = lat2)[4]

\* the nodes of G: the positions of turbine_points, from 0
Nodes(turbine_points) == 0 .. Len(turbine_points) - 1

\* the weight of the edge (i, j) of G
edge_weight(turbine_points, i, j) ==
    iac_haversine(turbine_points[i + 1][2], turbine_points[i + 1][1],
                  turbine_points[j + 1][2], turbine_points[j + 1][1])

\* the edges (i, j), i < j, of the complete graph G
GraphEdges(turbine_points) ==
    {e \in Nodes(turbine_points) \X Nodes(turbine_points) : e[1] < e[2]}

\* the edges in the order Kruskal's algorithm takes them: by weight, edges of
\* equal weight in the order they were added to G
SortedEdges(turbine_points) ==
    LET E == GraphEdges(turbine_points)
        w(e) == edge_weight(turbine_points, e[1], e[2])
        before(e, f) ==
            \/ w(e) < w(f)
            \/ w(e) = w(f) /\ e[1] < f[1]
            \/ w(e) = w(f) /\ e[1] = f[1] /\ e[2] < f[2]
        rank(e) == Cardinality({f \in E : before(f, e)}) + 1
    IN  [k \in 1 .. Cardinality(E) |-> CHOOSE e \in E : rank(e) = k]

\* Kruskal's algorithm joins the components of the two ends of an edge it
\* takes; component[v + 1] names the component of node v
joined_components(component, e) ==
    [v \in DOMAIN component |->
        IF component[v] = component[e[2] + 1] THEN component[e[1] + 1]
        ELSE component[v]]

\* G.neighbors(node) in the tree: the other ends of the node's edges, in the
\* order the edges were added
RECURSIVE neighbors(_, _)
neighbors(tree, node) ==
    IF tree = <<>> THEN <<>>
    ELSE LET e == Head(tree)
             rest == neighbors(Tail(tree), node)
         IN  IF e[1] = node THEN <<e[2]>> \o rest
             ELSE IF e[2] = node THEN <<e[1]>> \o rest
             ELSE rest

\* the distance of turbine i to the substation
substation_dist(turbine_points, substation_point, i) ==
    iac_haversine(substation_point[2], substation_point[1],
                  turbine_points[i + 1][2], turbine_points[i + 1][1])

\* the loop of lines 131 to 137: the first turbine of least distance
closest_turbine(turbine_points, substation_point) ==
    LET d(i) == substation_dist(turbine_points, substation_point, i)
    IN  CHOOSE i \in Nodes(turbine_points) :
            \A j \in Nodes(turbine_points) :
                d(i) < d(j) \/ (d(i) = d(j) /\ i <= j)

\* parent=None
NoParent == -1

\* the locals of a call accumulate_capacity(G, node, parent): todo holds the
\* neighbours the loop has not finished with
Frame(tree, node, parent) ==
    [node |-> node, parent |-> parent, todo |-> neighbors(tree, node),
     total_capacity |-> turbine_capacity]

\* total_capacity += child_capacity with the fault of adding nothing
accumulated_Dropped(total_capacity, child_capacity) == total_capacity

\* total_capacity += child_capacity
accumulated(total_capacity, child_capacity) == total_capacity + child_capacity

GridPoints == {<<2000, 6000>>, <<2002, 6000>>, <<2004, 6000>>,
               <<2000, 6001>>, <<2002, 6001>>}
SubstationPoints == {<<2002, 5999>>, <<2006, 6001>>}

\* the turbines of a wind farm: one to MaxTurbines different grid points
TurbinePoints ==
    UNION {{t \in [1 .. n -> GridPoints] :
                \A i, j \in 1 .. n : t[i] = t[j] => i = j} :
           n \in 1 .. MaxTurbines}

InitIac ==
    /\ OptModelNotRun
    /\ call \in {[fn |-> "create_and_add_inter_array_cables",
                  turbine_points |-> t, substation_point |-> s,
                  pc |-> "graph", edges |-> <<>>, component |-> <<>>,
                  mst |-> <<>>,
                  total_wind_farm_capacity |-> 0, substation_capacity |-> 0,
                  rows |-> <<>>, stack |-> <<>>, ret |-> 0] :
                    t \in TurbinePoints, s \in SubstationPoints}

\* lines 96 to 104: the complete graph of the turbines; line 107 begins:
\* every node its own component, the edges sorted
IacGraph ==
    /\ call.fn = "create_and_add_inter_array_cables"
    /\ call.pc = "graph"
    /\ call' = [call EXCEPT
                    !.edges = SortedEdges(call.turbine_points),
                    !.component = [v \in 1 .. Len(call.turbine_points) |-> v],
                    !.pc = "minimum_spanning_tree"]
    /\ UNCHANGED optvars

IacNextEdge ==
    /\ call.fn = "create_and_add_inter_array_cables"
    /\ call.pc = "minimum_spanning_tree"
    /\ call.edges # <<>>

\* line 107: an edge whose ends lie in different components joins the tree
IacTakeEdge ==
    /\ IacNextEdge
    /\ LET e == Head(call.edges)
       IN  /\ call.component[e[1] + 1] # call.component[e[2] + 1]
           /\ call' = [call EXCEPT
                           !.edges = Tail(@),
                           !.component = joined_components(@, e),
                           !.mst = Append(@, e)]
    /\ UNCHANGED optvars

\* line 107: an edge whose ends lie in one component is left out
IacLeaveEdge ==
    /\ IacNextEdge
    /\ LET e == Head(call.edges)
       IN  /\ call.component[e[1] + 1] = call.component[e[2] + 1]
           /\ call' = [call EXCEPT !.edges = Tail(@)]
    /\ UNCHANGED optvars

\* line 107 ends; lines 110 to 113
IacSpanningTree ==
    /\ call.fn = "create_and_add_inter_array_cables"
    /\ call.pc = "minimum_spanning_tree"
    /\ call.edges = <<>>
    /\ call' = [call EXCEPT
                    !.total_wind_farm_capacity =
                        turbine_capacity * Len(call.turbine_points),
                    !.substation_capacity =
                        turbine_capacity * Len(call.turbine_points),
                    !.pc = "substation_link"]
    /\ UNCHANGED optvars

\* lines 131 to 141: the row of the link between substation and closest
\* turbine
IacSubstationLink ==
    /\ call.fn = "create_and_add_inter_array_cables"
    /\ call.pc = "substation_link"
    /\ LET closest == closest_turbine(call.turbine_points, call.substation_point)
       IN  call' = [call EXCEPT
                        !.rows = Append(@,
                            [from |-> "substation", to |-> closest,
                             dist |-> substation_dist(call.turbine_points,
                                          call.substation_point, closest),
                             capacity |-> call.total_wind_farm_capacity]),
                        !.pc = "accumulate_capacity"]
    /\ UNCHANGED optvars

\* line 144: accumulate_capacity(mst, closest_turbine)
IacTraverse ==
    /\ call.fn = "create_and_add_inter_array_cables"
    /\ call.pc = "accumulate_capacity"
    /\ call' = [call EXCEPT
                    !.stack = <<Frame(call.mst,
                                      closest_turbine(call.turbine_points,
                                                      call.substation_point),
                                      NoParent)>>,
                    !.pc = "traversal"]
    /\ UNCHANGED optvars

\* the call of accumulate_capacity that is running
IacFrame == call.stack[Len(call.stack)]

IacInLoop ==
    /\ call.fn = "create_and_add_inter_array_cables"
    /\ call.pc = "traversal"
    /\ IacFrame.todo # <<>>

\* lines 119 and 120: if neighbor == parent: continue
IacSkipParent ==
    /\ IacInLoop
    /\ Head(IacFrame.todo) = IacFrame.parent
    /\ call' = [call EXCEPT !.stack[Len(call.stack)].todo = Tail(@)]
    /\ UNCHANGED optvars

\* lines 121 to 125: the call accumulate_capacity(G, neighbor, node)
IacDescend ==
    /\ IacInLoop
    /\ Head(IacFrame.todo) # IacFrame.parent
    /\ call' = [call EXCEPT
                    !.stack = Append(@, Frame(call.mst, Head(IacFrame.todo),
                                              IacFrame.node))]
    /\ UNCHANGED optvars

\* line 128, and in the caller lines 126 and 127: the row of the cable to
\* the neighbour and the sum
IacReturn ==
    /\ call.fn = "create_and_add_inter_array_cables"
    /\ call.pc = "traversal"
    /\ IacFrame.todo = <<>>
    /\ LET child_capacity == IacFrame.total_capacity
           n == Len(call.stack)
       IN  call' = IF n = 1
                   THEN [call EXCEPT !.stack = <<>>, !.ret = child_capacity,
                                     !.pc = "done"]
                   ELSE LET caller == call.stack[n - 1]
                        IN  [call EXCEPT
                               !.rows = Append(@,
                                   [from |-> caller.node, to |-> IacFrame.node,
                                    dist |-> edge_weight(call.turbine_points,
                                                caller.node, IacFrame.node),
                                    capacity |-> child_capacity]),
                               !.stack = [i \in 1 .. n - 1 |->
                                   IF i < n - 1 THEN call.stack[i]
                                   ELSE [caller EXCEPT
                                           !.todo = Tail(@),
                                           !.total_capacity =
                                               accumulated(@, child_capacity)]]]
    /\ UNCHANGED optvars

NextIac ==
    \/ IacGraph
    \/ IacTakeEdge
    \/ IacLeaveEdge
    \/ IacSpanningTree
    \/ IacSubstationLink
    \/ IacTraverse
    \/ IacSkipParent
    \/ IacDescend
    \/ IacReturn

SpecIac == InitIac /\ [][NextIac]_vars

\* every call and every iteration that can run does run
FairSpecIac == SpecIac /\ WF_vars(NextIac)

\* the edges of the tree as sets of two nodes
TreeEdges == {{call.mst[i][1], call.mst[i][2]} : i \in DOMAIN call.mst}

\* the nodes joined to node by edges of the set E, node included
RECURSIVE Joined(_, _)
Joined(nodes, E) ==
    LET more == {v \in Nodes(call.turbine_points) :
                    \E u \in nodes : {u, v} \in E}
    IN  IF more \subseteq nodes THEN nodes ELSE Joined(nodes \cup more, E)

\* the rows of the cables between turbines: all rows but the substation link
CableRows == {i \in DOMAIN call.rows : i > 1}

IacTraversalDone ==
    call.fn = "create_and_add_inter_array_cables" /\ call.pc = "done"

IacRowsMatchTree ==
    IacTraversalDone =>
        LET N == Len(call.turbine_points)
        IN  /\ Cardinality(TreeEdges) = N - 1
            /\ Joined({0}, TreeEdges) = Nodes(call.turbine_points)
            /\ Cardinality(CableRows) = N - 1
            /\ \A e \in TreeEdges :
                  Cardinality({i \in CableRows :
                      {call.rows[i].from, call.rows[i].to} = e}) = 1
            /\ \A i \in CableRows :
                  /\ {call.rows[i].from, call.rows[i].to} \in TreeEdges
                  /\ call.rows[i].capacity =
                        turbine_capacity
                          * Cardinality(Joined({call.rows[i].to},
                                TreeEdges \ {{call.rows[i].from, call.rows[i].to}}))
            /\ call.ret = turbine_capacity * N
            /\ call.ret = call.rows[1].capacity
            /\ call.ret = call.substation_capacity

\* C30: for a wind farm of N >= 1 turbines the traversal accumulate_capacity,
\* started at the turbine closest to the substation, comes to its end; it
\* has then inserted one cable row for each of the N - 1 edges of the minimum
\* spanning tree, the capacity of a row being turbine_capacity times the
\* number of turbines on the far side of its edge, and it returns
\* turbine_capacity * N, the capacity written on the substation link.
C30_TraversalCoversTreeAndSumsCapacity ==
    /\ []IacRowsMatchTree
    /\ <>IacTraversalDone

\* a traversal of four turbines has ended in which one turbine has two
\* cables leading away from the substation and one cable carries three
\* turbines
C30_Witness ==
    /\ IacTraversalDone
    /\ Len(call.turbine_points) = 4
    /\ \E i, j \in CableRows :
          i # j /\ call.rows[i].from = call.rows[j].from
    /\ \E i \in CableRows : call.rows[i].capacity = 3 * turbine_capacity

====
